---- MODULE Spec2Model ----
(***************************************************************************)
(* TuteNet client core: error taxonomy, retry engine and the BaseClient    *)
(* request lifecycle, with the per-service clients' credential handling.   *)
(*                                                                         *)
(* Optional JavaScript values are sequences: None is undefined (or NaN for *)
(* a number), Some(x) a present value.  A thrown or returned value is a    *)
(* record; proto is its class (what instanceof inspects).                  *)
(***************************************************************************)
EXTENDS Integers, Sequences, FiniteSets, TLC

VARIABLES probe, client, call, peer, host

vars == <<probe, client, call, peer, host>>

None == <<>>
Some(x) == <<x>>
IsSome(o) == o /= <<>>
Val(o) == o[1]

(***************************************************************************)
(* Error taxonomy (clientErrors.ts)                                        *)
(***************************************************************************)

\* class ClientError: constructor(message, code, statusCode?, details?, requestId?)
ClientErrorNew(proto, message, code, statusCode, details, requestId, retryAfter) ==
  [proto |-> proto, name |-> proto, message |-> message, code |-> code,
   statusCode |-> statusCode, details |-> details, requestId |-> requestId,
   retryAfter |-> retryAfter]

ClientError(message, code, statusCode, details, requestId) ==
  ClientErrorNew("ClientError", message, code, statusCode, details, requestId, None)

NetworkError(message, requestId) ==
  ClientErrorNew("NetworkError", message, "NETWORK_ERROR", None, None, requestId, None)

ValidationError(message, details, requestId) ==
  ClientErrorNew("ValidationError", message, "VALIDATION_ERROR", Some(400), details, requestId, None)

AuthenticationError(message, requestId) ==
  ClientErrorNew("AuthenticationError", message, "AUTHENTICATION_ERROR", Some(401), None, requestId, None)

AuthorizationError(message, requestId) ==
  ClientErrorNew("AuthorizationError", message, "AUTHORIZATION_ERROR", Some(403), None, requestId, None)

\* constructor(resource, identifier?, requestId?): the message is built from the resource
NotFoundError(resource, identifier, requestId) ==
  ClientErrorNew("NotFoundError",
                 IF IsSome(identifier) THEN resource \o " not found: " \o Val(identifier)
                                       ELSE resource \o " not found",
                 "NOT_FOUND_ERROR", Some(404), None, requestId, None)

ConflictError(message, requestId) ==
  ClientErrorNew("ConflictError", message, "CONFLICT_ERROR", Some(409), None, requestId, None)

RateLimitError(message, retryAfter, requestId) ==
  ClientErrorNew("RateLimitError", message, "RATE_LIMIT_ERROR", Some(429), None, requestId, retryAfter)

\* constructor(message, statusCode = 500, requestId?)
ServerError(message, statusCode, requestId) ==
  ClientErrorNew("ServerError", message, "SERVER_ERROR",
                 IF IsSome(statusCode) THEN statusCode ELSE Some(500),
                 None, requestId, None)

\* constructor(serviceName, requestId?)
ServiceUnavailableError(serviceName, requestId) ==
  ClientErrorNew("ServiceUnavailableError", serviceName \o " is temporarily unavailable",
                 "SERVICE_UNAVAILABLE_ERROR", Some(503), None, requestId, None)

\* constructor(timeout, requestId?): an undefined timeout prints as "undefined"
TimeoutError(timeout, requestId) ==
  ClientErrorNew("TimeoutError",
                 "Request timed out after "
                   \o (IF IsSome(timeout) THEN ToString(Val(timeout)) ELSE "undefined") \o "ms",
                 "TIMEOUT_ERROR", None, None, requestId, None)

\* the classes of the taxonomy; every one extends ClientError directly
TaxonomyClasses ==
  {"ClientError", "NetworkError", "ValidationError", "AuthenticationError",
   "AuthorizationError", "NotFoundError", "ConflictError", "RateLimitError",
   "ServerError", "ServiceUnavailableError", "TimeoutError"}

\* error instanceof C, for a leaf class C of the taxonomy
InstanceOf(error, cls) == error.proto = cls

isClientError(error) == error.proto \in TaxonomyClasses

\* ClientError.toJSON(): a plain object with the failure's own fields
toJSON(error) ==
  [proto |-> "Object", name |-> error.name, message |-> error.message, code |-> error.code,
   statusCode |-> error.statusCode, details |-> error.details,
   requestId |-> error.requestId, retryAfter |-> None]

\* the static kind predicates: XError.isXError(error) is error instanceof XError
KindClasses == TaxonomyClasses \ {"ClientError"}
isKindError(cls, error) == InstanceOf(error, cls)

\* createErrorFromResponse(status, data, requestId)
\* data is [type, success, error, data]; data?.error is undefined unless data is an object
ErrorDataOf(data) == IF data.type = "object" THEN data.error ELSE None

MessageOf(status, data) ==
  LET errorData == ErrorDataOf(data)
  IN IF IsSome(errorData) /\ IsSome(Val(errorData).message) /\ Val(Val(errorData).message) /= ""
       THEN Val(Val(errorData).message)
       ELSE "HTTP " \o ToString(status) \o " error"

DetailsOf(data) ==
  LET errorData == ErrorDataOf(data)
  IN IF IsSome(errorData) THEN Val(errorData).details ELSE None

\* createErrorFromResponse without its case 503
createErrorFromResponse_no503(status, data, requestId) ==
  LET message == MessageOf(status, data)
      details == DetailsOf(data)
  IN CASE status = 400 -> ValidationError(message, details, requestId)
       [] status = 401 -> AuthenticationError(message, requestId)
       [] status = 403 -> AuthorizationError(message, requestId)
       [] status = 404 -> NotFoundError(message, None, requestId)
       [] status = 409 -> ConflictError(message, requestId)
       [] status = 429 -> RateLimitError(message, None, requestId)
       [] OTHER -> IF status >= 500
                     THEN ServerError(message, Some(status), requestId)
                     ELSE ClientError(message, "HTTP_ERROR", Some(status), details, requestId)

createErrorFromResponse(status, data, requestId) ==
  LET message == MessageOf(status, data)
      details == DetailsOf(data)
  IN CASE status = 400 -> ValidationError(message, details, requestId)
       [] status = 401 -> AuthenticationError(message, requestId)
       [] status = 403 -> AuthorizationError(message, requestId)
       [] status = 404 -> NotFoundError(message, None, requestId)
       [] status = 409 -> ConflictError(message, requestId)
       [] status = 429 -> RateLimitError(message, None, requestId)
       [] status = 503 -> ServiceUnavailableError(message, requestId)
       [] OTHER -> IF status >= 500
                     THEN ServerError(message, Some(status), requestId)
                     ELSE ClientError(message, "HTTP_ERROR", Some(status), details, requestId)

\* isRetryableError with 503 treated as the transient failure it names
isRetryableError_with503(error) ==
  \/ InstanceOf(error, "NetworkError")
  \/ InstanceOf(error, "TimeoutError")
  \/ InstanceOf(error, "RateLimitError")
  \/ InstanceOf(error, "ServiceUnavailableError")
  \/ /\ InstanceOf(error, "ServerError")
     /\ IsSome(error.statusCode) /\ Val(error.statusCode) /= 0
     /\ Val(error.statusCode) >= 500

\* isRetryableError without the rate-limit line
isRetryableError_noRateLimit(error) ==
  \/ InstanceOf(error, "NetworkError")
  \/ InstanceOf(error, "TimeoutError")
  \/ /\ InstanceOf(error, "ServerError")
     /\ IsSome(error.statusCode) /\ Val(error.statusCode) /= 0
     /\ Val(error.statusCode) >= 500

\* isRetryableError answering true for every failure of the taxonomy
isRetryableError_anyClientError(error) == isClientError(error)

\* isRetryableError(error)
isRetryableError(error) ==
  \/ InstanceOf(error, "NetworkError")
  \/ InstanceOf(error, "TimeoutError")
  \/ InstanceOf(error, "RateLimitError")
  \/ /\ InstanceOf(error, "ServerError")
     /\ IsSome(error.statusCode) /\ Val(error.statusCode) /= 0
     /\ Val(error.statusCode) >= 500

(***************************************************************************)
(* Environment configuration (config/environment.ts)                       *)
(***************************************************************************)

Environments == {"development", "staging", "production"}
ApiTypes == {"external", "internal"}

\* ENDPOINTS[environment][apiType]; None where the table has no entry
ENDPOINTS(environment, apiType) ==
  CASE environment = "development" /\ apiType = "external" -> Some("https://dev-api.tutenet.com/v1")
    [] environment = "development" /\ apiType = "internal" -> Some("https://dev-internal-api.tutenet.com")
    [] environment = "staging" /\ apiType = "external" ->
         Some("https://32d6gfn27g.execute-api.ap-south-1.amazonaws.com/staging/v1")
    [] environment = "staging" /\ apiType = "internal" ->
         Some("https://nenm54vjg3.execute-api.ap-south-1.amazonaws.com/staging")
    [] environment = "production" /\ apiType = "external" -> Some("https://api.tutenet.com/v1")
    [] environment = "production" /\ apiType = "internal" -> Some("https://internal-api.tutenet.com")
    [] OTHER -> None

\* DEFAULT_CONFIG
DEFAULT_TIMEOUT == 10000
DEFAULT_RETRIES == 2
DEFAULT_API_TYPE == "external"
DEFAULT_DEBUG == FALSE

\* String.prototype.toLowerCase, on the spellings the signals are given in
toLowerCase(str) ==
  CASE str \in {"PROD", "Prod"} -> "prod"
    [] str \in {"PRODUCTION", "Production"} -> "production"
    [] str \in {"STAGING", "Staging"} -> "staging"
    [] str \in {"DEV", "Dev"} -> "dev"
    [] str \in {"DEVELOPMENT", "Development"} -> "development"
    [] str = "TEST" -> "test"
    [] OTHER -> str

\* process.env.X?.toLowerCase()
LowerCased(signal) == IF IsSome(signal) THEN Some(toLowerCase(Val(signal))) ELSE None

\* detectEnvironment consulting NODE_ENV before STAGE
detectEnvironment_nodeEnvFirst(stage, nodeEnv) ==
  LET st == LowerCased(stage)
      ne == LowerCased(nodeEnv)
  IN IF ne = Some("production") THEN "production"
     ELSE IF ne = Some("staging") THEN "staging"
     ELSE IF st \in {Some("prod"), Some("production")} THEN "production"
     ELSE IF st = Some("staging") THEN "staging"
     ELSE "development"

\* detectEnvironment(): STAGE first, then NODE_ENV, else development
detectEnvironment(stage, nodeEnv) ==
  LET st == LowerCased(stage)
      ne == LowerCased(nodeEnv)
  IN IF st \in {Some("prod"), Some("production")} THEN "production"
     ELSE IF st = Some("staging") THEN "staging"
     ELSE IF st \in {Some("dev"), Some("development")} THEN "development"
     ELSE IF ne = Some("production") THEN "production"
     ELSE IF ne = Some("staging") THEN "staging"
     ELSE "development"

\* ENDPOINTS is a plain object: a key it does not own is looked up on
\* Object.prototype, whose members are functions, and a function has a name
ObjectPrototypeMembers == {"constructor", "toString", "valueOf", "hasOwnProperty"}

Inherited(environment, apiType) ==
  IF environment \in ObjectPrototypeMembers /\ apiType = "name"
    THEN Some(IF environment = "constructor" THEN "Object" ELSE environment)
    ELSE None

\* getEndpoint reading the table's own entries only
getEndpoint_ownEntries(environment, apiType) ==
  LET endpoint == ENDPOINTS(environment, apiType)
  IN [threw |-> ~(IsSome(endpoint) /\ Val(endpoint) /= ""), value |-> endpoint]

\* getEndpoint(environment, apiType): ENDPOINTS[environment]?.[apiType], a throw
\* when that is falsy
getEndpoint(environment, apiType) ==
  LET own == ENDPOINTS(environment, apiType)
      endpoint == IF IsSome(own) THEN own ELSE Inherited(environment, apiType)
  IN [threw |-> ~(IsSome(endpoint) /\ Val(endpoint) /= ""), value |-> endpoint]

\* getEndpoint throws when the lookup finds nothing
getEndpointThrows(environment, apiType) == getEndpoint(environment, apiType).threw

\* A ClientConfig as BaseClient receives it.  An optional key is [present, v]:
\* present says the object has the key at all (a per-service constructor always
\* writes timeout, retries and authToken, with the value undefined when its own
\* option was omitted).
Absent == [present |-> FALSE, v |-> None]
Key(v) == [present |-> TRUE, v |-> v]

\* a number is truthy unless it is 0 (or NaN / undefined)
TruthyNum(o) == IsSome(o) /\ Val(o) /= 0

\* validateConfig(config): TRUE when it throws
validateConfigThrows(config) ==
  \/ ~(config.environment.present /\ IsSome(config.environment.v)
       /\ Val(config.environment.v) \in Environments)
  \/ ~(config.apiType.present /\ IsSome(config.apiType.v)
       /\ Val(config.apiType.v) \in ApiTypes)
  \/ /\ TruthyNum(config.timeout.v)
     /\ (Val(config.timeout.v) < 1000 \/ Val(config.timeout.v) > 60000)
  \/ /\ TruthyNum(config.retries.v)
     /\ (Val(config.retries.v) < 0 \/ Val(config.retries.v) > 5)

\* { ...DEFAULT_CONFIG, ...config }: a key of config wins whenever config has it,
\* also when its value is undefined
MergeKey(key, default) == IF key.present THEN key.v ELSE default

\* the merge as written for a config none of whose keys is undefined-valued
MergeKey_skipUndefined(key, default) == IF key.present /\ IsSome(key.v) THEN key.v ELSE default

(***************************************************************************)
(* Client construction (baseClient.ts and the per-service clients)         *)
(***************************************************************************)

\* the concrete client classes; ProfileClient hands its ClientConfig to BaseClient as it is
ServiceClasses == {"UploadClient", "AuthClient", "AccessClient"}
Classes == ServiceClasses \cup {"ProfileClient"}

\* a ClientConfig with no key at all
NoConfig ==
  [environment |-> Absent, apiType |-> Absent, timeout |-> Absent, retries |-> Absent,
   authToken |-> Absent]

\* no client; threw says the last constructor call threw.  tokenOp, tokenSet,
\* omitted, asked (the retries value the caller wrote), given (the ClientConfig
\* BaseClient's constructor received) and built (the settings the constructor
\* left) record what happened; the code does not read them.
NoClient ==
  [state |-> "none", threw |-> FALSE, cls |-> "", environment |-> None, apiType |-> None,
   timeout |-> None, retries |-> None, debug |-> FALSE, authToken |-> None, baseUrl |-> None,
   defaultAuth |-> None, tokenOp |-> "none", tokenSet |-> None,
   omitted |-> [timeout |-> FALSE, retries |-> FALSE, audience |-> FALSE],
   given |-> NoConfig, asked |-> None, built |-> <<>>]

\* UploadClient / AuthClient constructor: the ClientConfig handed to super()
\* option is [environment, useInternalApi, timeout, retries, accessToken]
ServiceClientConfig(option, stage, nodeEnv) ==
  [environment |-> Key(IF IsSome(option.environment) THEN option.environment
                       ELSE Some(detectEnvironment(stage, nodeEnv))),
   apiType |-> Key(Some(IF option.useInternalApi = Some(TRUE) THEN "internal" ELSE "external")),
   timeout |-> Key(option.timeout),
   retries |-> Key(option.retries),
   authToken |-> Key(option.accessToken)]

\* AccessClient constructor: timeout: config.timeout || 30000, retries: config.retries || 2
ACCESS_TIMEOUT == 30000
ACCESS_RETRIES == 2

AccessClientConfig(option, stage, nodeEnv) ==
  [environment |-> Key(IF IsSome(option.environment) THEN option.environment
                       ELSE Some(detectEnvironment(stage, nodeEnv))),
   apiType |-> Key(Some(IF option.useInternalApi = Some(TRUE) THEN "internal" ELSE "external")),
   timeout |-> Key(IF TruthyNum(option.timeout) THEN option.timeout ELSE Some(ACCESS_TIMEOUT)),
   retries |-> Key(IF TruthyNum(option.retries) THEN option.retries ELSE Some(ACCESS_RETRIES)),
   authToken |-> Key(option.accessToken)]

\* BaseClient constructor: validate, merge with DEFAULT_CONFIG, resolve the base URL
\* from the unmerged config, create the transport instance
BaseClientNew(cls, config) ==
  IF validateConfigThrows(config)
     \/ getEndpointThrows(Val(config.environment.v), Val(config.apiType.v))
  THEN [NoClient EXCEPT !.threw = TRUE]
  ELSE [state |-> "ready", threw |-> FALSE, cls |-> cls,
        environment |-> config.environment.v,
        apiType |-> MergeKey(config.apiType, Some(DEFAULT_API_TYPE)),
        timeout |-> MergeKey(config.timeout, Some(DEFAULT_TIMEOUT)),
        retries |-> MergeKey(config.retries, Some(DEFAULT_RETRIES)),
        debug |-> DEFAULT_DEBUG,
        authToken |-> MergeKey(config.authToken, None),
        baseUrl |-> ENDPOINTS(Val(config.environment.v), Val(config.apiType.v)),
        defaultAuth |-> None, tokenOp |-> "none", tokenSet |-> None,
        omitted |-> NoClient.omitted, given |-> NoConfig, asked |-> None,
        built |-> <<config.environment.v, MergeKey(config.apiType, Some(DEFAULT_API_TYPE)),
                    ENDPOINTS(Val(config.environment.v), Val(config.apiType.v)),
                    MergeKey(config.timeout, Some(DEFAULT_TIMEOUT)),
                    MergeKey(config.retries, Some(DEFAULT_RETRIES)), DEFAULT_DEBUG,
                    MergeKey(config.authToken, None)>>]

\* a string is truthy unless it is empty (or undefined)
TruthyStr(o) == IsSome(o) /\ Val(o) /= ""

\* request interceptor: the Authorization header an attempt leaves with.  The
\* transport's default header is merged first, then config.authToken overwrites it.
InterceptorAuth(c) == IF TruthyStr(c.authToken) THEN c.authToken ELSE c.defaultAuth

\* UploadClient / AccessClient setAccessToken: (this.config as any).authToken = token
ConfigSetToken(c, token) == [c EXCEPT !.authToken = Some(token)]

\* UploadClient / AccessClient clearAccessToken: delete (this.config as any).authToken
ConfigClearToken(c) == [c EXCEPT !.authToken = None]

\* AuthClient setAccessToken: client.defaults.headers.common['Authorization'] = `Bearer ${token}`
DefaultsSetToken(c, token) == [c EXCEPT !.defaultAuth = Some(token)]

\* AuthClient clearAccessToken: delete client.defaults.headers.common['Authorization']
DefaultsClearToken(c) == [c EXCEPT !.defaultAuth = None]

setAccessToken(c, token) ==
  IF c.cls = "AuthClient" THEN DefaultsSetToken(c, token) ELSE ConfigSetToken(c, token)

clearAccessToken(c) ==
  IF c.cls = "AuthClient" THEN DefaultsClearToken(c) ELSE ConfigClearToken(c)

(***************************************************************************)
(* Transport outcomes and the single attempt (BaseClient.executeRequest)   *)
(***************************************************************************)

\* a decoded body: type is "undefined", "string" or "object"; for an object,
\* success is "absent", "true" or "false", error the error field, data the data field
BodyUndefined == [type |-> "undefined", success |-> "absent", error |-> None, data |-> None]
BodyText == [type |-> "string", success |-> "absent", error |-> None, data |-> None]
BodyObject(success, error, data) ==
  [type |-> "object", success |-> success, error |-> error, data |-> data]
ErrorField(message, details) == Some([message |-> message, details |-> details])

\* what one transport call can end in: a 2xx response, an HTTP error response
\* (the transport rejects with the response attached), or no response at all.
\* requestId is the x-request-id header, retryAfter the retry-after header (seconds).
Response(status, data, requestId) ==
  [type |-> "response", code |-> "", hasResponse |-> TRUE, status |-> status,
   data |-> data, requestId |-> requestId, retryAfter |-> None]
HttpError(status, data, requestId) ==
  [type |-> "error", code |-> IF status >= 500 THEN "ERR_BAD_RESPONSE" ELSE "ERR_BAD_REQUEST",
   hasResponse |-> TRUE, status |-> status, data |-> data, requestId |-> requestId,
   retryAfter |-> None]
NoResponse(code) ==
  [type |-> "error", code |-> code, hasResponse |-> FALSE, status |-> 0,
   data |-> BodyUndefined, requestId |-> None, retryAfter |-> None]
NoOutcome ==
  [type |-> "none", code |-> "", hasResponse |-> FALSE, status |-> 0,
   data |-> BodyUndefined, requestId |-> None, retryAfter |-> None]

\* a 429 response carrying a retry-after hint
RateLimited(hint, data, requestId) ==
  [HttpError(429, data, requestId) EXCEPT !.retryAfter = Some(hint)]

\* the value undefined, as a thrown or returned value
Undefined ==
  [proto |-> "undefined", name |-> "", message |-> "", code |-> "", statusCode |-> None,
   details |-> None, requestId |-> None, retryAfter |-> None]

\* handleResponse of the unwrap revision: a success envelope is replaced by its data
handleResponse_unwrap(response) ==
  IF response.data.type = "object" /\ response.data.success = "true"
    THEN [BodyText EXCEPT !.data = response.data.data]
    ELSE response.data

\* handleResponse(response): every branch returns the decoded body itself
handleResponse(response) == response.data

\* handleError without its timeout branch
handleError_noTimeoutBranch(c, error) ==
  IF error.code \in {"ECONNREFUSED", "ENOTFOUND"}
    THEN NetworkError("Unable to connect to " \o Val(c.baseUrl), None)
  ELSE IF error.hasResponse
    THEN createErrorFromResponse(error.status, error.data, error.requestId)
  ELSE NetworkError("Request failed: " \o error.code, None)

\* handleError looking at the response before the error code
handleError_responseFirst(c, error) ==
  IF error.hasResponse
    THEN createErrorFromResponse(error.status, error.data, error.requestId)
  ELSE IF error.code \in {"ECONNREFUSED", "ENOTFOUND"}
    THEN NetworkError("Unable to connect to " \o Val(c.baseUrl), None)
  ELSE IF error.code = "ECONNABORTED"
    THEN TimeoutError(c.timeout, None)
  ELSE NetworkError("Request failed: " \o error.code, None)

\* handleError(error, url): the failure an attempt rejects with
handleError(c, error) ==
  IF error.code \in {"ECONNREFUSED", "ENOTFOUND"}
    THEN NetworkError("Unable to connect to " \o Val(c.baseUrl), None)
  ELSE IF error.code = "ECONNABORTED"
    THEN TimeoutError(c.timeout, None)
  ELSE IF error.hasResponse
    THEN createErrorFromResponse(error.status, error.data, error.requestId)
  ELSE NetworkError("Request failed: " \o error.code, None)

\* the catch block's test: the error response's body is an object with a falsy success
IsErrorEnvelope(error) ==
  /\ error.hasResponse
  /\ error.data.type = "object"
  /\ error.data.success = "false"

\* executeRequest(config): [ok, value, error] of one attempt
Returned(value) == [ok |-> TRUE, value |-> value, error |-> Undefined]
Thrown(error) == [ok |-> FALSE, value |-> BodyUndefined, error |-> error]

\* executeRequest of the unwrap-or-throw revision: its catch block only throws
executeRequest_alwaysThrows(c, outcome) ==
  IF outcome.type = "response" THEN Returned(handleResponse(outcome))
  ELSE Thrown(handleError(c, outcome))

\* executeRequest returning the envelope only when the status is not one the
\* classifier would make retryable
executeRequest_retriesEnvelope(c, outcome) ==
  IF outcome.type = "response" THEN Returned(handleResponse(outcome))
  ELSE IF IsErrorEnvelope(outcome) /\ ~isRetryableError(handleError(c, outcome))
    THEN Returned(outcome.data)
  ELSE Thrown(handleError(c, outcome))

executeRequest(c, outcome) ==
  IF outcome.type = "response" THEN Returned(handleResponse(outcome))
  ELSE IF IsErrorEnvelope(outcome) THEN Returned(outcome.data)
  ELSE Thrown(handleError(c, outcome))

(***************************************************************************)
(* Retry engine (utils/retry.ts)                                           *)
(***************************************************************************)

\* DEFAULT_RETRY_CONFIG; shouldRetry is a predicate's name, onRetryThrows says
\* whether the onRetry hook throws (the default hook does nothing)
DEFAULT_MAX_ATTEMPTS == 3
DEFAULT_INITIAL_DELAY == 1000
DEFAULT_MAX_DELAY == 30000
DEFAULT_BACKOFF_MULTIPLIER == 2

DEFAULT_RETRY_CONFIG ==
  [maxAttempts |-> Some(DEFAULT_MAX_ATTEMPTS), initialDelay |-> DEFAULT_INITIAL_DELAY,
   maxDelay |-> DEFAULT_MAX_DELAY, backoffMultiplier |-> DEFAULT_BACKOFF_MULTIPLIER,
   jitter |-> TRUE, shouldRetry |-> "always", onRetryThrows |-> FALSE]

RECURSIVE Pow(_, _)
Pow(b, e) == IF e <= 0 THEN 1 ELSE b * Pow(b, e - 1)

Min(a, b) == IF a <= b THEN a ELSE b
Max(a, b) == IF a >= b THEN a ELSE b

\* calculateDelay without Math.min(delay, maxDelay)
calculateDelay_uncapped(attempt, initialDelay, maxDelay, multiplier, jitter, rnd) ==
  LET capped == initialDelay * Pow(multiplier, attempt)
      jitterAmount == capped \div 4
      delay == IF jitter THEN capped + ((rnd * 2 - 1000) * jitterAmount) \div 1000
               ELSE capped
  IN Max(delay, 0)

\* calculateDelay starting over from initialDelay once the raw delay passes the cap
calculateDelay_resetsAtCap(attempt, initialDelay, maxDelay, multiplier, jitter, rnd) ==
  LET raw == initialDelay * Pow(multiplier, attempt)
      capped == IF raw > maxDelay THEN Min(initialDelay, maxDelay) ELSE raw
      jitterAmount == capped \div 4
      delay == IF jitter THEN capped + ((rnd * 2 - 1000) * jitterAmount) \div 1000
               ELSE capped
  IN Max(delay, 0)

\* calculateDelay with a jitter of +-50%
calculateDelay_halfJitter(attempt, initialDelay, maxDelay, multiplier, jitter, rnd) ==
  LET capped == Min(initialDelay * Pow(multiplier, attempt), maxDelay)
      jitterAmount == capped \div 2
      delay == IF jitter THEN capped + ((rnd * 2 - 1000) * jitterAmount) \div 1000
               ELSE capped
  IN Max(delay, 0)

\* calculateDelay(attempt, initialDelay, maxDelay, multiplier, jitter); rnd is
\* Math.random() in thousandths (0..999)
calculateDelay(attempt, initialDelay, maxDelay, multiplier, jitter, rnd) ==
  LET capped == Min(initialDelay * Pow(multiplier, attempt), maxDelay)
      jitterAmount == capped \div 4
      delay == IF jitter THEN capped + ((rnd * 2 - 1000) * jitterAmount) \div 1000
               ELSE capped
  IN Max(delay, 0)

\* the shouldRetry predicates a policy can carry, by name
ShouldRetryNames == {"always", "never", "isRetryableError"}

shouldRetry(name, error) ==
  CASE name = "always" -> TRUE
    [] name = "never" -> FALSE
    [] OTHER -> isRetryableError(error)

\* the exception an onRetry hook throws, when it throws
HookError ==
  [proto |-> "Error", name |-> "Error", message |-> "onRetry failed", code |-> "",
   statusCode |-> None, details |-> None, requestId |-> None, retryAfter |-> None]

\* one retry() or request() call.  pc: "idle", "operation" (awaiting the
\* operation), "sleeping" (awaiting sleep), "resolved", "rejected".
\* calls, onRetryCalls, sleeps, sentAuth, tokenChanged, lastOutcome, thrownFirst,
\* thrownLast, allAccepted and hook (the arguments of the onRetry call of the
\* backoff in progress) record what happened; the code does not read them.
IdleCall ==
  [pc |-> "idle", kind |-> "none", wrapped |-> FALSE, skipRetry |-> FALSE,
   config |-> DEFAULT_RETRY_CONFIG,
   attempt |-> 0, lastError |-> Undefined, value |-> BodyUndefined, error |-> Undefined,
   delay |-> 0, calls |-> 0, onRetryCalls |-> 0, sleeps |-> 0, sentAuth |-> None,
   issuedAuth |-> None,
   tokenChanged |-> FALSE, lastOutcome |-> NoOutcome,
   thrownFirst |-> Undefined, thrownLast |-> Undefined, allAccepted |-> TRUE,
   hook |-> <<>>]

Settled(c) == c.pc \in {"resolved", "rejected"}

\* await operation(): for a request the operation is executeRequest, whose
\* transport call passes the request interceptor
Invoke(c, cl) ==
  [c EXCEPT !.pc = "operation", !.calls = @ + 1,
            !.sentAuth = IF c.kind = "request" THEN InterceptorAuth(cl) ELSE None]

\* a resolution that also reports the last failure caught
Resolve_reportsFailure(c, value) ==
  [c EXCEPT !.pc = "resolved", !.value = value, !.error = c.lastError]

Resolve(c, value) == [c EXCEPT !.pc = "resolved", !.value = value]
Reject(c, error) == [c EXCEPT !.pc = "rejected", !.error = error]

\* for (...; attempt <= finalConfig.maxAttempts; ...): a NaN bound compares false
LoopCond(attempt, maxAttempts) == IsSome(maxAttempts) /\ attempt <= Val(maxAttempts)

\* the loop head entered without testing the bound (a do-while)
retryLoop_doWhile(c, cl) == Invoke(c, cl)

\* the loop head: run the body for c.attempt, or fall out to `throw lastError`
retryLoop(c, cl) ==
  IF LoopCond(c.attempt, c.config.maxAttempts) THEN Invoke(c, cl) ELSE Reject(c, c.lastError)

\* the backoff computing the delay for the attempt number instead of attempt - 1
backoff_nextIndex(c, rnd) ==
  LET c1 == [c EXCEPT !.onRetryCalls = @ + 1, !.hook = <<c.lastError, c.attempt>>]
  IN IF c.config.onRetryThrows THEN Reject(c1, HookError)
     ELSE [c1 EXCEPT !.sleeps = @ + 1, !.pc = "sleeping",
                     !.delay = calculateDelay(c.attempt, c.config.initialDelay,
                                 c.config.maxDelay, c.config.backoffMultiplier,
                                 c.config.jitter, rnd)]

\* the backoff catching what onRetry throws and giving up with the operation's failure
backoff_hookErrorSwallowed(c, rnd) ==
  LET c1 == [c EXCEPT !.onRetryCalls = @ + 1, !.hook = <<c.lastError, c.attempt>>]
  IN IF c.config.onRetryThrows THEN Reject(c1, c.lastError)
     ELSE [c1 EXCEPT !.sleeps = @ + 1, !.pc = "sleeping",
                     !.delay = calculateDelay(c.attempt - 1, c.config.initialDelay,
                                 c.config.maxDelay, c.config.backoffMultiplier,
                                 c.config.jitter, rnd)]

\* onRetry(error, attempt), calculateDelay(attempt - 1, ...) and the start of
\* sleep(delay); an exception of onRetry leaves the catch block and rejects retry()
backoff(c, rnd) ==
  LET c1 == [c EXCEPT !.onRetryCalls = @ + 1, !.hook = <<c.lastError, c.attempt>>]
  IN IF c.config.onRetryThrows THEN Reject(c1, HookError)
     ELSE [c1 EXCEPT !.sleeps = @ + 1, !.pc = "sleeping",
                     !.delay = calculateDelay(c.attempt - 1, c.config.initialDelay,
                                 c.config.maxDelay, c.config.backoffMultiplier,
                                 c.config.jitter, rnd)]

\* the catch block keeping the first failure in lastError instead of the latest
retryCatch_firstError(c, error, rnd) ==
  LET c1 == [c EXCEPT !.lastError = IF c.attempt = 1 THEN error ELSE @]
  IN IF Some(c.attempt) = c.config.maxAttempts THEN Reject(c1, c1.lastError)
     ELSE IF ~shouldRetry(c.config.shouldRetry, error) THEN Reject(c1, c1.lastError)
     ELSE backoff(c1, rnd)

\* the catch block that never consults shouldRetry
retryCatch_ignoresPredicate(c, error, rnd) ==
  LET c1 == [c EXCEPT !.lastError = error]
  IN IF Some(c.attempt) = c.config.maxAttempts THEN Reject(c1, error)
     ELSE backoff(c1, rnd)

\* the catch block calling the onRetry hook before it consults shouldRetry
retryCatch_hookFirst(c, error, rnd) ==
  LET c1 == [c EXCEPT !.lastError = error]
  IN IF Some(c.attempt) = c.config.maxAttempts THEN Reject(c1, error)
     ELSE IF ~shouldRetry(c.config.shouldRetry, error)
       THEN Reject([c1 EXCEPT !.onRetryCalls = @ + 1], error)
     ELSE backoff(c1, rnd)

\* the catch block without its last-attempt break: it backs off after the
\* final failure too and leaves the rejection to the loop's bound
retryCatch_sleepsAfterLast(c, error, rnd) ==
  LET c1 == [c EXCEPT !.lastError = error]
  IN IF ~shouldRetry(c.config.shouldRetry, error) THEN Reject(c1, error)
     ELSE backoff(c1, rnd)

\* the catch block of retry(): error is what the operation threw
retryCatch(c, error, rnd) ==
  LET c1 == [c EXCEPT !.lastError = error]
  IN IF Some(c.attempt) = c.config.maxAttempts THEN Reject(c1, error)
     ELSE IF ~shouldRetry(c.config.shouldRetry, error) THEN Reject(c1, error)
     ELSE backoff(c1, rnd)

\* retry(operation, config): a fresh call entering the loop at attempt 1
retry(cl, kind, config) ==
  retryLoop([IdleCall EXCEPT !.kind = kind, !.wrapped = TRUE, !.config = config,
                             !.attempt = 1], cl)

\* the policy request() hands to retry(): maxAttempts: this.config.retries + 1
\* (NaN when retries is undefined), shouldRetry: isRetryableError, a logging onRetry
RequestRetryConfig(cl) ==
  [DEFAULT_RETRY_CONFIG EXCEPT
     !.maxAttempts = IF IsSome(cl.retries) THEN Some(Val(cl.retries) + 1) ELSE None,
     !.shouldRetry = "isRetryableError"]

\* the operation called once, outside retry()
Unwrapped(cl, skipRetry) ==
  Invoke([IdleCall EXCEPT !.kind = "request", !.skipRetry = skipRetry, !.attempt = 1], cl)

\* request() that wraps the call in retry() whatever skipRetry and retries say
request_alwaysRetries(cl, skipRetry) ==
  [retry(cl, "request", RequestRetryConfig(cl)) EXCEPT !.skipRetry = skipRetry]

\* request() handing retry() maxAttempts: this.config.retries + 2
request_oneMore(cl, skipRetry) ==
  IF skipRetry \/ cl.retries = Some(0)
    THEN Unwrapped(cl, skipRetry)
    ELSE [retry(cl, "request",
                [RequestRetryConfig(cl) EXCEPT
                    !.maxAttempts = IF IsSome(cl.retries) THEN Some(Val(cl.retries) + 2) ELSE None])
            EXCEPT !.skipRetry = skipRetry]

\* BaseClient.request(method, url, data, config): the call it starts
request(cl, skipRetry) ==
  IF skipRetry \/ cl.retries = Some(0)
    THEN Unwrapped(cl, skipRetry)
    ELSE [retry(cl, "request", RequestRetryConfig(cl)) EXCEPT !.skipRetry = skipRetry]

(***************************************************************************)
(* Inputs                                                                  *)
(***************************************************************************)

Tokens == {"a", "b"}

\* options of a per-service constructor
RetriesOptions == {None} \cup {Some(n) : n \in 0..6}
TimeoutOptions == {None, Some(5000)}
ServiceOptions ==
  [environment : {None}, useInternalApi : {None, Some(TRUE)}, timeout : TimeoutOptions,
   retries : RetriesOptions, accessToken : {None, Some("a")}]

\* ClientConfig objects handed to BaseClient directly
DirectConfigs ==
  [environment : {Key(Some("development"))},
   apiType : {Absent, Key(Some("external"))},
   timeout : {Absent},
   retries : {Absent} \cup {Key(Some(n)) : n \in 0..5},
   authToken : {Absent, Key(Some("a"))}]

\* statuses and bodies the transport answers with
ErrorStatuses == {400, 401, 403, 404, 409, 418, 429, 500, 502, 503, 599}
EnvelopeFail == BodyObject("false", ErrorField(Some("email invalid"), Some("d1")), None)
EnvelopeOk == BodyObject("true", None, Some("u1"))
RawError == BodyObject("absent", ErrorField(Some("boom"), None), None)
ErrorBodies == {BodyUndefined, BodyText, EnvelopeFail, EnvelopeOk, RawError}
OkBodies == {BodyText, EnvelopeOk}
NoResponseCodes == {"ECONNREFUSED", "ENOTFOUND", "ECONNABORTED", "ERR_NETWORK"}

Outcomes ==
  {Response(200, b, None) : b \in OkBodies}
    \cup {HttpError(s, b, None) : s \in ErrorStatuses, b \in ErrorBodies}
    \cup {NoResponse(code) : code \in NoResponseCodes}

\* Math.random() draws, in thousandths
RandomDraws == {0, 998}

(***************************************************************************)
(* Actions                                                                 *)
(***************************************************************************)

InitProbe ==
  [fn |-> "none", status |-> 0, data |-> BodyUndefined, requestId |-> None,
   result |-> Undefined, retryable |-> FALSE, ok |-> FALSE, args |-> <<>>, out |-> <<>>]

\* the caller's process: the ambient STAGE / NODE_ENV signals and the object
\* the last getConfig() call returned (live says it is this.config itself)
NoCopy ==
  [taken |-> FALSE, live |-> FALSE, environment |-> None, apiType |-> None,
   timeout |-> None, retries |-> None, debug |-> FALSE, authToken |-> None]

InitHost == [stage |-> None, nodeEnv |-> None, copy |-> NoCopy]

Init ==
  /\ probe = InitProbe
  /\ client = NoClient
  /\ call = IdleCall
  /\ peer = IdleCall
  /\ host = InitHost

\* new UploadClient(option) / new AuthClient(option) / new AccessClient(option);
\* omitted records which options the caller left out
ConstructService(cls, option) ==
  /\ client.state = "none"
  /\ LET config == IF cls = "AccessClient"
                     THEN AccessClientConfig(option, host.stage, host.nodeEnv)
                     ELSE ServiceClientConfig(option, host.stage, host.nodeEnv)
     IN client' = [BaseClientNew(cls, config)
                     EXCEPT !.omitted = [timeout |-> option.timeout = None,
                                         retries |-> option.retries = None,
                                         audience |-> option.useInternalApi = None],
                            !.given = config, !.asked = option.retries]
  /\ UNCHANGED <<probe, call, peer, host>>

\* new ProfileClient(config)
ConstructDirect(config) ==
  /\ client.state = "none"
  /\ client' = [BaseClientNew("ProfileClient", config)
                  EXCEPT !.omitted = [timeout |-> ~config.timeout.present,
                                      retries |-> ~config.retries.present,
                                      audience |-> ~config.apiType.present],
                         !.given = config, !.asked = config.retries.v]
  /\ UNCHANGED <<probe, call, peer, host>>

InFlight(c) == c.pc \in {"operation", "sleeping"}

\* client.setAccessToken(token); tokenOp and tokenSet record the call, tokenChanged
\* marks the request issued before it
SetAccessToken(token) ==
  /\ client.state = "ready"
  /\ client.cls \in ServiceClasses
  /\ client' = [setAccessToken(client, token) EXCEPT !.tokenOp = "set", !.tokenSet = Some(token)]
  /\ call' = IF call.kind /= "none" THEN [call EXCEPT !.tokenChanged = TRUE] ELSE call
  /\ UNCHANGED <<probe, peer, host>>

\* client.clearAccessToken()
ClearAccessToken ==
  /\ client.state = "ready"
  /\ client.cls \in ServiceClasses
  /\ client' = [clearAccessToken(client) EXCEPT !.tokenOp = "clear", !.tokenSet = None]
  /\ call' = IF call.kind /= "none" THEN [call EXCEPT !.tokenChanged = TRUE] ELSE call
  /\ UNCHANGED <<probe, peer, host>>

\* client.get / post / put / patch / delete: request(), up to its first await;
\* issuedAuth records the credential current when the request is issued
Request(skipRetry) ==
  /\ client.state = "ready"
  /\ ~InFlight(call)
  /\ call' = [request(client, skipRetry) EXCEPT !.issuedAuth = InterceptorAuth(client)]
  /\ UNCHANGED <<probe, client, peer, host>>

\* the transport call of the current attempt settles; executeRequest turns it
\* into a value or a failure, and retry()'s catch block runs on a failure
TransportSettle(outcome, rnd) ==
  /\ call.pc = "operation"
  /\ call.kind = "request"
  /\ LET r == executeRequest(client, outcome)
         c0 == [call EXCEPT !.lastOutcome = outcome,
                            !.allAccepted = @ /\ ~r.ok
                                              /\ isRetryableError(r.error)]
     IN call' = IF r.ok THEN Resolve(c0, r.value)
                ELSE IF ~c0.wrapped THEN Reject(c0, r.error)
                ELSE retryCatch(c0, r.error, rnd)
  /\ UNCHANGED <<probe, client, peer, host>>

\* await sleep(delay) returns: attempt++ and the loop head again
SleepDone ==
  /\ call.pc = "sleeping"
  /\ call' = retryLoop([call EXCEPT !.attempt = @ + 1, !.delay = 0, !.hook = <<>>], client)
  /\ UNCHANGED <<probe, client, peer, host>>

\* the request engine: construction of every client class, requests, retries
Next ==
  \/ \E cls \in ServiceClasses, option \in ServiceOptions : ConstructService(cls, option)
  \/ \E config \in DirectConfigs : ConstructDirect(config)
  \/ \E skipRetry \in BOOLEAN : Request(skipRetry)
  \/ \E outcome \in Outcomes, rnd \in RandomDraws : TransportSettle(outcome, rnd)
  \/ SleepDone

Spec == Init /\ [][Next]_vars

\* the credential cell: token changes interleaved with requests and their retries
CredentialOptions ==
  [environment : {None}, useInternalApi : {None}, timeout : {Some(5000)},
   retries : {Some(0), Some(2)}, accessToken : {None, Some("a")}]

CredentialOutcomes ==
  {Response(200, EnvelopeOk, None), HttpError(503, BodyUndefined, None),
   HttpError(500, BodyUndefined, None), NoResponse("ECONNREFUSED")}

CredentialNext ==
  \/ \E cls \in ServiceClasses, option \in CredentialOptions : ConstructService(cls, option)
  \/ \E token \in Tokens : SetAccessToken(token)
  \/ ClearAccessToken
  \/ \E skipRetry \in BOOLEAN : Request(skipRetry)
  \/ \E outcome \in CredentialOutcomes, rnd \in RandomDraws : TransportSettle(outcome, rnd)
  \/ SleepDone

CredentialSpec == Init /\ [][CredentialNext]_vars

\* two requests in flight on one client.  call and peer are the two promises;
\* each holds its own retry() frame (attempt, lastError, finalConfig are locals
\* of the call) and the client object is the only thing they share.
ConcurrentConfigs ==
  [environment : {Key(Some("development"))}, apiType : {Key(Some("external"))},
   timeout : {Absent}, retries : {Key(Some(n)) : n \in 0..2}, authToken : {Absent}]

ConcurrentOutcomes ==
  {Response(200, EnvelopeOk, None), HttpError(400, EnvelopeFail, None),
   HttpError(404, BodyUndefined, None), HttpError(500, BodyUndefined, None),
   NoResponse("ECONNREFUSED"), NoResponse("ECONNABORTED")}

\* the second caller's client.get / post / ...
PeerRequest(skipRetry) ==
  /\ client.state = "ready"
  /\ ~InFlight(peer)
  /\ peer' = [request(client, skipRetry) EXCEPT !.issuedAuth = InterceptorAuth(client)]
  /\ UNCHANGED <<probe, client, call, host>>

\* the second request's transport call settles
PeerTransportSettle(outcome, rnd) ==
  /\ peer.pc = "operation"
  /\ peer.kind = "request"
  /\ LET r == executeRequest(client, outcome)
         c0 == [peer EXCEPT !.lastOutcome = outcome,
                            !.allAccepted = @ /\ ~r.ok /\ isRetryableError(r.error)]
     IN peer' = IF r.ok THEN Resolve(c0, r.value)
                ELSE IF ~c0.wrapped THEN Reject(c0, r.error)
                ELSE retryCatch(c0, r.error, rnd)
  /\ UNCHANGED <<probe, client, call, host>>

\* the second request's sleep with its attempt counter shared with the first
PeerSleepDone_sharedAttempt ==
  /\ peer.pc = "sleeping"
  /\ peer' = retryLoop([peer EXCEPT !.attempt = call.attempt + 1, !.delay = 0, !.hook = <<>>], client)
  /\ UNCHANGED <<probe, client, call, host>>

\* the second request's await sleep(delay) returns
PeerSleepDone ==
  /\ peer.pc = "sleeping"
  /\ peer' = retryLoop([peer EXCEPT !.attempt = @ + 1, !.delay = 0, !.hook = <<>>], client)
  /\ UNCHANGED <<probe, client, call, host>>

ConcurrentNext ==
  \/ \E config \in ConcurrentConfigs : ConstructDirect(config)
  \/ \E skipRetry \in BOOLEAN : Request(skipRetry)
  \/ \E outcome \in ConcurrentOutcomes : TransportSettle(outcome, 0)
  \/ SleepDone
  \/ \E skipRetry \in BOOLEAN : PeerRequest(skipRetry)
  \/ \E outcome \in ConcurrentOutcomes : PeerTransportSettle(outcome, 0)
  \/ PeerSleepDone

ConcurrentSpec == Init /\ [][ConcurrentNext]_vars

\* a transport that never answers within the timeout: every transport call ends
\* in the transport's timeout error (code ECONNABORTED, no response)
TimeoutNext ==
  \/ \E cls \in ServiceClasses, option \in ServiceOptions : ConstructService(cls, option)
  \/ \E config \in DirectConfigs : ConstructDirect(config)
  \/ \E skipRetry \in BOOLEAN : Request(skipRetry)
  \/ \E rnd \in RandomDraws : TransportSettle(NoResponse("ECONNABORTED"), rnd)
  \/ SleepDone

TimeoutSpec == Init /\ [][TimeoutNext]_vars

\* construction over valid and invalid configurations
ValidationConfigs ==
  [environment : {Absent, Key(None), Key(Some("qa"))} \cup {Key(Some(e)) : e \in Environments},
   apiType : {Absent, Key(Some("public"))} \cup {Key(Some(a)) : a \in ApiTypes},
   timeout : {Absent, Key(None)}
               \cup {Key(Some(n)) : n \in {-5, 0, 1, 999, 1000, 10000, 60000, 60001}},
   retries : {Absent, Key(None)} \cup {Key(Some(n)) : n \in {-1, 0, 1, 5, 6}},
   authToken : {Absent}]

ValidationNext == \E config \in ValidationConfigs : ConstructDirect(config)

ValidationSpec == Init /\ [][ValidationNext]_vars

\* a rate-limiting server: 429 responses with and without a retry-after hint
RetryAfterHints == {1, 3}

RateLimitConfigs ==
  [environment : {Key(Some("production"))}, apiType : {Key(Some("external"))},
   timeout : {Absent}, retries : {Absent} \cup {Key(Some(n)) : n \in 0..3},
   authToken : {Absent}]

RateLimitOutcomes ==
  {RateLimited(hint, data, requestId) :
     hint \in RetryAfterHints, data \in {BodyUndefined, RawError}, requestId \in {None, Some("r1")}}
  \cup {HttpError(429, BodyUndefined, None), HttpError(500, BodyUndefined, None),
        Response(200, EnvelopeOk, None)}

RateLimitNext ==
  \/ \E config \in RateLimitConfigs : ConstructDirect(config)
  \/ \E skipRetry \in BOOLEAN : Request(skipRetry)
  \/ \E outcome \in RateLimitOutcomes, rnd \in RandomDraws : TransportSettle(outcome, rnd)
  \/ SleepDone

RateLimitSpec == Init /\ [][RateLimitNext]_vars

\* successful responses of every body shape: no body, text, an envelope with
\* success true or false, an object without a success field
RawData == BodyObject("absent", None, Some("u1"))
SuccessBodies == {BodyUndefined, BodyText, EnvelopeOk, EnvelopeFail, RawData}

ResponseOutcomes ==
  {Response(status, data, requestId) :
     status \in {200, 201, 204}, data \in SuccessBodies, requestId \in {None, Some("r1")}}
  \cup {HttpError(500, BodyUndefined, None), NoResponse("ECONNREFUSED")}

ResponseNext ==
  \/ \E config \in RateLimitConfigs : ConstructDirect(config)
  \/ \E skipRetry \in BOOLEAN : Request(skipRetry)
  \/ \E outcome \in ResponseOutcomes, rnd \in RandomDraws : TransportSettle(outcome, rnd)
  \/ SleepDone

ResponseSpec == Init /\ [][ResponseNext]_vars

\* the configuration over a client's life: requests, health checks, getConfig()
\* and writes to the object it returned, token changes, ambient signal changes
Signals == {None, Some("prod"), Some("staging")}

ImmutableOptions ==
  [environment : {None, Some("staging")}, useInternalApi : {None}, timeout : {Some(5000)},
   retries : {Some(1)}, accessToken : {None, Some("a")}]

ImmutableOutcomes ==
  {Response(200, EnvelopeOk, None), HttpError(500, BodyUndefined, None)}

\* process.env.STAGE / NODE_ENV change
SetSignals(stage, nodeEnv) ==
  /\ host' = [host EXCEPT !.stage = stage, !.nodeEnv = nodeEnv]
  /\ UNCHANGED <<probe, client, call, peer>>

\* getConfig() returning this.config itself
getConfig_live(c) ==
  [taken |-> TRUE, live |-> TRUE, environment |-> c.environment, apiType |-> c.apiType,
   timeout |-> c.timeout, retries |-> c.retries, debug |-> c.debug, authToken |-> c.authToken]

\* getConfig(): { ...this.config }, a fresh object with the same members
getConfig(c) ==
  [taken |-> TRUE, live |-> FALSE, environment |-> c.environment, apiType |-> c.apiType,
   timeout |-> c.timeout, retries |-> c.retries, debug |-> c.debug, authToken |-> c.authToken]

\* const cfg = client.getConfig()
GetConfig ==
  /\ client.state = "ready"
  /\ host' = [host EXCEPT !.copy = getConfig(client)]
  /\ UNCHANGED <<probe, client, call, peer>>

\* the caller's writes to the object getConfig() returned: cfg.retries = 0;
\* cfg.timeout = 1; cfg.debug = true; cfg.environment = 'production'.  They
\* reach the client only when that object is this.config itself.
MutateCopy ==
  /\ host.copy.taken
  /\ host' = [host EXCEPT !.copy.retries = Some(0), !.copy.timeout = Some(1),
                           !.copy.debug = TRUE, !.copy.environment = Some("production")]
  /\ client' = IF host.copy.live
                  THEN [client EXCEPT !.retries = Some(0), !.timeout = Some(1),
                                      !.debug = TRUE, !.environment = Some("production")]
                  ELSE client
  /\ UNCHANGED <<probe, call, peer>>

\* the fixed timeout of the health request
HEALTH_TIMEOUT == 2000

\* healthCheck() whose catch block rethrows
healthCheck_rethrows(outcome) ==
  [settled |-> IF outcome.type = "response" THEN "resolved" ELSE "rejected",
   value |-> (outcome.type = "response" /\ outcome.status = 200),
   calls |-> 1, path |-> "/health", timeout |-> HEALTH_TIMEOUT]

\* healthCheck() answering true for every response the transport resolves with
healthCheck_any2xx(outcome) ==
  [settled |-> "resolved", value |-> (outcome.type = "response"),
   calls |-> 1, path |-> "/health", timeout |-> HEALTH_TIMEOUT]

\* healthCheck(): one this.client.get('/health', { timeout: 2000 }) on the
\* transport itself (not through request(), so outside retry()); the try
\* returns response.status === 200, the catch returns false
healthCheck(outcome) ==
  [settled |-> "resolved",
   value |-> (outcome.type = "response" /\ outcome.status = 200),
   calls |-> 1, path |-> "/health", timeout |-> HEALTH_TIMEOUT]

\* await client.healthCheck(), the transport call ending in outcome
HealthCheck(outcome) ==
  /\ client.state = "ready"
  /\ probe' = [InitProbe EXCEPT !.fn = "healthCheck", !.status = outcome.status,
                                !.ok = healthCheck(outcome).value,
                                !.args = <<outcome>>, !.out = healthCheck(outcome)]
  /\ UNCHANGED <<client, call, peer, host>>

ImmutableNext ==
  \/ \E cls \in ServiceClasses, option \in ImmutableOptions : ConstructService(cls, option)
  \/ \E stage \in Signals, nodeEnv \in Signals : SetSignals(stage, nodeEnv)
  \/ GetConfig
  \/ MutateCopy
  \/ \E outcome \in ImmutableOutcomes : HealthCheck(outcome)
  \/ \E token \in Tokens : SetAccessToken(token)
  \/ ClearAccessToken
  \/ Request(FALSE)
  \/ \E outcome \in ImmutableOutcomes : TransportSettle(outcome, 0)
  \/ SleepDone

ImmutableSpec == Init /\ [][ImmutableNext]_vars

\* health checks against every transport outcome
HealthOutcomes ==
  Outcomes \cup {Response(status, data, None) : status \in {201, 204}, data \in OkBodies}
           \cup {HttpError(304, BodyUndefined, None)}

HealthNext ==
  \/ \E config \in RateLimitConfigs : ConstructDirect(config)
  \/ \E outcome \in HealthOutcomes : HealthCheck(outcome)

HealthSpec == Init /\ [][HealthNext]_vars

\* calculateDelay as a pure function: the inputs are drawn at the start and one
\* step applies it to attempt index k and to k + 1
MaxAttemptIndex == 11

DelayInputs ==
  [attempt : 0..MaxAttemptIndex, initialDelay : {0, 1, 100, 1000},
   maxDelay : {0, 1000, 10000, 30000}, multiplier : {0, 1, 2, 3},
   jitter : BOOLEAN, rnd : {0, 1, 250, 500, 998, 999}]

DelayInit ==
  /\ probe \in {[InitProbe EXCEPT !.fn = "input", !.args = <<in>>] : in \in DelayInputs}
  /\ client = NoClient
  /\ call = IdleCall
  /\ peer = IdleCall
  /\ host = InitHost

CalculateDelay ==
  /\ probe.fn = "input"
  /\ LET in == probe.args[1]
     IN probe' = [probe EXCEPT
          !.fn = "calculateDelay",
          !.out = [delay |-> calculateDelay(in.attempt, in.initialDelay, in.maxDelay,
                                            in.multiplier, in.jitter, in.rnd),
                   next |-> calculateDelay(in.attempt + 1, in.initialDelay, in.maxDelay,
                                           in.multiplier, in.jitter, in.rnd)]]
  /\ UNCHANGED <<client, call, peer, host>>

DelayNext == CalculateDelay

DelaySpec == DelayInit /\ [][DelayNext]_vars

\* getEndpoint as a pure function: a pair is drawn at the start and the
\* function is called on it up to MaxLookups times
MaxLookups == 2

EndpointInputs ==
  [environment : Environments \cup {"qa", "Staging", "undefined"} \cup ObjectPrototypeMembers,
   apiType : ApiTypes \cup {"public", "EXTERNAL", "undefined", "name"}]

EndpointInit ==
  /\ probe \in {[InitProbe EXCEPT !.fn = "getEndpoint", !.args = <<in>>] : in \in EndpointInputs}
  /\ client = NoClient
  /\ call = IdleCall
  /\ peer = IdleCall
  /\ host = InitHost

GetEndpoint ==
  /\ probe.fn = "getEndpoint"
  /\ Len(probe.out) < MaxLookups
  /\ probe' = [probe EXCEPT
       !.out = Append(@, getEndpoint(probe.args[1].environment, probe.args[1].apiType))]
  /\ UNCHANGED <<client, call, peer, host>>

EndpointNext == GetEndpoint

EndpointSpec == EndpointInit /\ [][EndpointNext]_vars

\* per-service construction with the baseUrl option, then where the client points
CUSTOM_BASE_URL == "https://custom-api.example.com"

BaseUrlOptions ==
  [environment : {None, Some("staging")}, useInternalApi : {None, Some(TRUE)},
   baseUrl : {None, Some(CUSTOM_BASE_URL)}, timeout : {None},
   retries : {Some(0), Some(1)}, accessToken : {None}]

\* new UploadClient(option) / new AuthClient(option) / new AccessClient(option):
\* the constructors copy environment, audience, timeout, retries and token
\* into the ClientConfig; no constructor reads option.baseUrl
ConstructWithOptions(cls, option) ==
  /\ client.state = "none"
  /\ ~client.threw
  /\ LET config == IF cls = "AccessClient"
                     THEN AccessClientConfig(option, host.stage, host.nodeEnv)
                     ELSE ServiceClientConfig(option, host.stage, host.nodeEnv)
     IN client' = [BaseClientNew(cls, config)
                     EXCEPT !.omitted = [timeout |-> option.timeout = None,
                                         retries |-> option.retries = None,
                                         audience |-> option.useInternalApi = None],
                            !.given = config, !.asked = option.retries]
  /\ probe' = [InitProbe EXCEPT !.fn = "construct", !.args = <<option>>]
  /\ UNCHANGED <<call, peer, host>>

\* getBaseUrl(): return this.baseUrl
getBaseUrl(c) == c.baseUrl

\* axios.create({ baseURL: this.baseUrl }): requests carry relative paths, so
\* the transport sends them to the instance's baseURL
transportBaseURL(c) == c.baseUrl

GetBaseUrl ==
  /\ client.state = "ready"
  /\ probe.fn = "construct"
  /\ probe' = [probe EXCEPT !.fn = "getBaseUrl", !.out = getBaseUrl(client)]
  /\ UNCHANGED <<client, call, peer, host>>

\* a request, the target of its transport calls recorded
TargetedRequest(skipRetry) ==
  /\ client.state = "ready"
  /\ ~InFlight(call)
  /\ probe.fn \in {"construct", "getBaseUrl", "request"}
  /\ call' = [request(client, skipRetry) EXCEPT !.issuedAuth = InterceptorAuth(client)]
  /\ probe' = [probe EXCEPT !.fn = "request", !.out = transportBaseURL(client)]
  /\ UNCHANGED <<client, peer, host>>

BaseUrlOutcomes ==
  {Response(200, BodyUndefined, None), HttpError(500, BodyUndefined, None),
   HttpError(404, BodyUndefined, None), NoResponse("ECONNREFUSED")}

BaseUrlNext ==
  \/ \E cls \in ServiceClasses, option \in BaseUrlOptions : ConstructWithOptions(cls, option)
  \/ GetBaseUrl
  \/ \E skipRetry \in BOOLEAN : TargetedRequest(skipRetry)
  \/ \E outcome \in BaseUrlOutcomes, rnd \in RandomDraws : TransportSettle(outcome, rnd)
  \/ SleepDone

BaseUrlSpec == Init /\ [][BaseUrlNext]_vars

\* The unwrap-or-throw revision of the request engine (the compiled BaseClient).
\* Its request() is that of the source; handleResponse unwraps or throws, and
\* executeRequest's catch block maps whatever the try block threw.

\* the value data.data, returned in place of the envelope
Payload(v) == [type |-> "payload", success |-> "absent", error |-> None, data |-> v]

\* handleResponse(response) of the revision: [ok, value, error]
unwrapHandleResponse(response) ==
  LET data == response.data
  IN IF data.type /= "object" THEN Returned(data)
     ELSE IF data.success /= "absent"
       THEN IF data.success /= "true"
              THEN Thrown(createErrorFromResponse(response.status, data, response.requestId))
            ELSE IF data.data = None
              THEN Thrown(ClientError("API returned success but no data", "NO_DATA",
                                      Some(response.status), None, response.requestId))
            ELSE Returned(Payload(data.data))
     ELSE Returned(data)

\* handleError applied to a failure handleResponse threw: a ClientError has a
\* code of the taxonomy and no response, so the last branch builds the result
unwrapHandleThrown(c, thrown) ==
  IF thrown.code \in {"ECONNREFUSED", "ENOTFOUND"}
    THEN NetworkError("Unable to connect to " \o Val(c.baseUrl), None)
  ELSE IF thrown.code = "ECONNABORTED"
    THEN TimeoutError(c.timeout, None)
  ELSE NetworkError("Request failed: " \o thrown.message, None)

\* executeRequest with handleResponse called outside the try block
unwrapExecuteRequest_outsideTry(c, outcome) ==
  IF outcome.type = "response" THEN unwrapHandleResponse(outcome)
  ELSE Thrown(handleError(c, outcome))

\* executeRequest(config) of the revision: handleResponse runs inside the try
\* block, so what it throws reaches the catch block's handleError
unwrapExecuteRequest(c, outcome) ==
  IF outcome.type = "response"
    THEN LET r == unwrapHandleResponse(outcome)
         IN IF r.ok THEN r ELSE Thrown(unwrapHandleThrown(c, r.error))
  ELSE Thrown(handleError(c, outcome))

EnvelopeNoData == BodyObject("true", None, None)
UnwrapBodies == {BodyText, EnvelopeOk, EnvelopeNoData, EnvelopeFail, RawData}

UnwrapOutcomes ==
  {Response(status, data, requestId) :
     status \in {200, 201}, data \in UnwrapBodies, requestId \in {None, Some("r1")}}
  \cup {HttpError(500, BodyUndefined, None), HttpError(400, EnvelopeFail, None),
        NoResponse("ECONNREFUSED")}

\* the transport call of the current attempt settles, in the revision
UnwrapTransportSettle(outcome, rnd) ==
  /\ call.pc = "operation"
  /\ call.kind = "request"
  /\ LET r == unwrapExecuteRequest(client, outcome)
         c0 == [call EXCEPT !.lastOutcome = outcome,
                            !.allAccepted = @ /\ ~r.ok
                                              /\ isRetryableError(r.error)]
     IN call' = IF r.ok THEN Resolve(c0, r.value)
                ELSE IF ~c0.wrapped THEN Reject(c0, r.error)
                ELSE retryCatch(c0, r.error, rnd)
  /\ UNCHANGED <<probe, client, peer, host>>

UnwrapNext ==
  \/ \E config \in RateLimitConfigs : ConstructDirect(config)
  \/ \E skipRetry \in BOOLEAN : Request(skipRetry)
  \/ \E outcome \in UnwrapOutcomes, rnd \in RandomDraws : UnwrapTransportSettle(outcome, rnd)
  \/ SleepDone

UnwrapSpec == Init /\ [][UnwrapNext]_vars

\* UploadClient.uploadFile / completeUpload.  The workflow in progress is kept
\* in probe.out: pc is "presign" (awaiting generatePresignedUrl), "put"
\* (awaiting fetch), "finalize" (awaiting finalizeUpload), "resolved" or
\* "rejected"; presigned is what generatePresignedUrl resolved with; putUrl the
\* first argument of fetch; puts, progress, finalizes count the fetch calls,
\* onProgress(100) calls and finalizeUpload calls; presignOutcome and putOutcome
\* record what the transport and the storage answered.
PRESIGNED_URL == "https://bucket.s3.amazonaws.com/k1?X-Amz-Signature=s"
PRESIGNED_KEY == "k1"

\* the body of a presign answer: { key, url, expiresIn }
PresignBody ==
  [type |-> "object", success |-> "absent", error |-> None, data |-> None,
   url |-> Some(PRESIGNED_URL), key |-> Some(PRESIGNED_KEY)]

\* value.url and value.key: undefined when the value has no such property
UrlOf(value) == IF "url" \in DOMAIN value THEN value.url ELSE None
KeyOf(value) == IF "key" \in DOMAIN value THEN value.key ELSE None

NoFlow ==
  [pc |-> "idle", complete |-> FALSE, onProgress |-> FALSE, presigned |-> BodyUndefined,
   putUrl |-> None, puts |-> 0, progress |-> 0, finalizes |-> 0, s3Key |-> None,
   presignOutcome |-> NoOutcome, putOutcome |-> "none", value |-> None,
   error |-> Undefined]

\* new Error(`Failed to upload file to S3: ${error}`)
UploadError ==
  [HookError EXCEPT !.message = "Failed to upload file to S3"]

\* what `await fetch(url, { method: 'PUT', ... })` ends in: a response that is
\* ok, one that is not, or a rejection.  fetch(undefined) is one of the three
\* as well: the platform either refuses to parse the URL or resolves
\* "undefined" against the page and sends the PUT there.
PutOutcomes == {"ok", "notOk", "rejects"}

\* uploadFile up to its first await: generatePresignedUrl -> post -> request
startUpload(complete, onProgress) ==
  [NoFlow EXCEPT !.pc = "presign", !.complete = complete, !.onProgress = onProgress]

\* afterPresign that goes on only when the resolved value carries a url
afterPresign_checksUrl(flow, c) ==
  IF c.pc = "rejected"
    THEN [flow EXCEPT !.pc = "rejected", !.error = c.error,
                      !.presignOutcome = c.lastOutcome]
  ELSE IF UrlOf(c.value) = None
    THEN [flow EXCEPT !.pc = "rejected", !.error = UploadError,
                      !.presigned = c.value, !.presignOutcome = c.lastOutcome]
    ELSE [flow EXCEPT !.pc = "put", !.presigned = c.value, !.putUrl = UrlOf(c.value),
                      !.puts = @ + 1, !.presignOutcome = c.lastOutcome]

\* the presign request settled: a rejection leaves uploadFile (the await is
\* outside the try block); any resolved value goes on to fetch(value.url)
afterPresign(flow, c) ==
  IF c.pc = "rejected"
    THEN [flow EXCEPT !.pc = "rejected", !.error = c.error,
                      !.presignOutcome = c.lastOutcome]
    ELSE [flow EXCEPT !.pc = "put", !.presigned = c.value, !.putUrl = UrlOf(c.value),
                      !.puts = @ + 1, !.presignOutcome = c.lastOutcome]

\* the fetch settled: not ok or a rejection throws the upload error; ok calls
\* onProgress(100) if given and returns presignedResponse.key, which
\* completeUpload hands to finalizeUpload as s3Key
afterPut(flow, outcome) ==
  IF outcome /= "ok"
    THEN [flow EXCEPT !.pc = "rejected", !.error = UploadError, !.putOutcome = outcome]
    ELSE LET f == [flow EXCEPT !.putOutcome = outcome,
                               !.progress = IF flow.onProgress THEN @ + 1 ELSE @,
                               !.s3Key = KeyOf(flow.presigned)]
         IN IF flow.complete THEN [f EXCEPT !.pc = "finalize", !.finalizes = @ + 1]
            ELSE [f EXCEPT !.pc = "resolved", !.value = KeyOf(flow.presigned)]

\* the finalize request settled: completeUpload settles as it did
afterFinalize(flow, c) ==
  IF c.pc = "rejected" THEN [flow EXCEPT !.pc = "rejected", !.error = c.error]
  ELSE [flow EXCEPT !.pc = "resolved", !.value = Some(c.value)]

UploadOptions ==
  [environment : {None}, useInternalApi : {None}, timeout : {None},
   retries : {None, Some(0), Some(1)}, accessToken : {None}]

UploadOutcomes ==
  {Response(200, PresignBody, None), Response(200, EnvelopeFail, None),
   HttpError(400, EnvelopeFail, None), HttpError(500, BodyUndefined, None),
   NoResponse("ECONNREFUSED")}

FlowRunning == probe.fn \in {"uploadFile", "completeUpload"}
                 /\ probe.out.pc \in {"presign", "put", "finalize"}

\* uploadFile(...) or completeUpload(...) is called
StartUpload(complete, onProgress) ==
  /\ client.state = "ready"
  /\ ~FlowRunning
  /\ ~InFlight(call)
  /\ probe' = [InitProbe EXCEPT !.fn = IF complete THEN "completeUpload" ELSE "uploadFile",
                                !.out = startUpload(complete, onProgress)]
  /\ call' = [request(client, FALSE) EXCEPT !.issuedAuth = InterceptorAuth(client)]
  /\ UNCHANGED <<client, peer, host>>

PresignSettled ==
  /\ FlowRunning
  /\ probe.out.pc = "presign"
  /\ Settled(call)
  /\ probe' = [probe EXCEPT !.out = afterPresign(probe.out, call)]
  /\ UNCHANGED <<client, call, peer, host>>

PutSettles(outcome) ==
  /\ FlowRunning
  /\ probe.out.pc = "put"
  /\ probe' = [probe EXCEPT !.out = afterPut(probe.out, outcome)]
  /\ call' = IF outcome = "ok" /\ probe.out.complete
               THEN [request(client, FALSE) EXCEPT !.issuedAuth = InterceptorAuth(client)]
               ELSE call
  /\ UNCHANGED <<client, peer, host>>

FinalizeSettled ==
  /\ FlowRunning
  /\ probe.out.pc = "finalize"
  /\ Settled(call)
  /\ probe' = [probe EXCEPT !.out = afterFinalize(probe.out, call)]
  /\ UNCHANGED <<client, call, peer, host>>

UploadNext ==
  \/ \E option \in UploadOptions : ConstructService("UploadClient", option)
  \/ \E complete \in BOOLEAN, onProgress \in BOOLEAN : StartUpload(complete, onProgress)
  \/ \E outcome \in UploadOutcomes, rnd \in RandomDraws : TransportSettle(outcome, rnd)
  \/ SleepDone
  \/ PresignSettled
  \/ \E outcome \in PutOutcomes : PutSettles(outcome)
  \/ FinalizeSettled

UploadSpec == Init /\ [][UploadNext]_vars

\* AccessClient.isUrlExpired / getTimeUntilExpiration.  A content URL is
\* [parsable, expires, date]: whether new URL() accepts it and its
\* X-Amz-Expires and X-Amz-Date parameters (None when searchParams.get gives
\* null).  Times are milliseconds counted from 2026-01-01T00:00:00Z; NaN is None.

\* parseInt(str, 10)
parseInt(str) ==
  CASE str = "0" -> Some(0)
    [] str = "60" -> Some(60)
    [] str = "3600" -> Some(3600)
    [] OTHER -> None

\* new Date(dateParam.replace(/(\d{4})(\d{2})...Z/, '$1-$2-$3T$4:$5:$6Z')).getTime()
SignedDate(str) ==
  CASE str \in {"20260101T000000Z", "2026-01-01T00:00:00Z"} -> Some(0)
    [] str = "20260101T000100Z" -> Some(60000)
    [] OTHER -> None

\* signedDate.getTime() + expiresIn * 1000: NaN when either operand is
expirationTime(url) ==
  LET expiresIn == parseInt(Val(url.expires))
      signedDate == SignedDate(Val(url.date))
  IN IF IsSome(expiresIn) /\ IsSome(signedDate)
       THEN Some(Val(signedDate) + Val(expiresIn) * 1000)
       ELSE None

\* !expiresParam || !dateParam
ParamMissing(url) == ~TruthyStr(url.expires) \/ ~TruthyStr(url.date)

\* isUrlExpired(contentUrl) at time now: a comparison with NaN is false
isUrlExpired(url, now) ==
  IF ~url.parsable THEN TRUE
  ELSE IF ParamMissing(url) THEN TRUE
  ELSE IsSome(expirationTime(url)) /\ now > Val(expirationTime(url))

\* getTimeUntilExpiration(contentUrl) at time now: Math.max(0, NaN) is NaN
getTimeUntilExpiration(url, now) ==
  IF ~url.parsable THEN Some(0)
  ELSE IF ParamMissing(url) THEN Some(0)
  ELSE IF IsSome(expirationTime(url))
    THEN Some(Max(0, (Val(expirationTime(url)) - now) \div 1000))
  ELSE None

ContentUrls ==
  {[parsable |-> FALSE, expires |-> None, date |-> None]}
    \cup [parsable : {TRUE},
          expires : {None} \cup {Some(v) : v \in {"", "0", "60", "3600", "abc"}},
          date : {None} \cup {Some(v) : v \in {"", "20260101T000000Z", "2026-01-01T00:00:00Z",
                                               "20260101T000100Z", "yesterday"}}]

\* Date.now() readings
ClockReadings == {0, 59999, 60000, 60001, 119000, 3600000, 3660001}

ExpiryInit ==
  /\ probe \in {[InitProbe EXCEPT !.fn = "input", !.args = <<url>>] : url \in ContentUrls}
  /\ client = NoClient
  /\ call = IdleCall
  /\ peer = IdleCall
  /\ host = InitHost

\* isUrlExpired(url) and then getTimeUntilExpiration(url), the clock not
\* running backwards between the two
IsUrlExpired(now) ==
  /\ probe.fn = "input"
  /\ probe' = [probe EXCEPT !.fn = "isUrlExpired",
                            !.out = [now |-> now, expired |-> isUrlExpired(probe.args[1], now)]]
  /\ UNCHANGED <<client, call, peer, host>>

GetTimeUntilExpiration(now) ==
  /\ probe.fn = "isUrlExpired"
  /\ now >= probe.out.now
  /\ probe' = [probe EXCEPT !.fn = "getTimeUntilExpiration",
                            !.out = [now |-> now, expired |-> probe.out.expired,
                                     remaining |-> getTimeUntilExpiration(probe.args[1], now)]]
  /\ UNCHANGED <<client, call, peer, host>>

ExpiryNext ==
  \/ \E now \in ClockReadings : IsUrlExpired(now)
  \/ \E now \in ClockReadings : GetTimeUntilExpiration(now)

ExpirySpec == ExpiryInit /\ [][ExpiryNext]_vars

\* handleError as a function of the rejection's shape: any error code, with or
\* without a response
ErrorCodes ==
  {"ECONNREFUSED", "ENOTFOUND", "ECONNABORTED", "ERR_BAD_RESPONSE", "ERR_NETWORK", ""}
ErrorShapes ==
  {[NoResponse(code) EXCEPT !.hasResponse = TRUE, !.status = status, !.data = data,
                            !.requestId = requestId] :
     code \in ErrorCodes, status \in {400, 404, 429, 500, 503},
     data \in {BodyUndefined, BodyText, RawError}, requestId \in {None, Some("r1")}}
    \cup {NoResponse(code) : code \in ErrorCodes}

HandleErrorInit ==
  /\ probe \in {[InitProbe EXCEPT !.fn = "input", !.args = <<error>>] : error \in ErrorShapes}
  /\ client \in {BaseClientNew("ProfileClient",
                                [NoConfig EXCEPT !.environment = Key(Some("development")),
                                                 !.apiType = Key(Some("external")),
                                                 !.timeout = timeout]) :
                    timeout \in {Absent, Key(Some(5000))}}
  /\ call = IdleCall
  /\ peer = IdleCall
  /\ host = InitHost

\* throw this.handleError(error, url), and isRetryableError of what it built
HandleError ==
  /\ probe.fn = "input"
  /\ probe' = [probe EXCEPT !.fn = "handleError",
                            !.result = handleError(client, probe.args[1]),
                            !.retryable = isRetryableError(handleError(client, probe.args[1]))]
  /\ UNCHANGED <<client, call, peer, host>>

HandleErrorNext == HandleError

HandleErrorSpec == HandleErrorInit /\ [][HandleErrorNext]_vars

\* detectEnvironment as a pure function of the two ambient signals
StageInputs ==
  {None} \cup {Some(v) : v \in {"prod", "PROD", "production", "Production", "staging",
                                "STAGING", "dev", "DEV", "development", "Development",
                                "test", "qa", ""}}
NodeEnvInputs ==
  {None} \cup {Some(v) : v \in {"production", "PRODUCTION", "staging", "Staging",
                                "development", "test", "TEST", ""}}

DetectInit ==
  /\ probe \in {[InitProbe EXCEPT !.fn = "input", !.args = <<stage, nodeEnv>>] :
                  stage \in StageInputs, nodeEnv \in NodeEnvInputs}
  /\ client = NoClient
  /\ call = IdleCall
  /\ peer = IdleCall
  /\ host = InitHost

DetectEnvironment ==
  /\ probe.fn = "input"
  /\ probe' = [probe EXCEPT !.fn = "detectEnvironment",
                            !.out = detectEnvironment(probe.args[1], probe.args[2])]
  /\ UNCHANGED <<client, call, peer, host>>

DetectNext == DetectEnvironment

DetectSpec == DetectInit /\ [][DetectNext]_vars

\* retry() called directly with an operation of the caller's own
GenericErrors ==
  {NetworkError("connection lost", None), ValidationError("email invalid", None, None),
   ServerError("boom", Some(500), None), ServiceUnavailableError("upload", None),
   [HookError EXCEPT !.message = "plain"]}

\* the largest maxAttempts a direct retry() call is given
MaxAttemptsBound == 5

RetryConfigs ==
  [maxAttempts : {None} \cup {Some(n) : n \in (0 - 1)..MaxAttemptsBound},
   initialDelay : {DEFAULT_INITIAL_DELAY}, maxDelay : {DEFAULT_MAX_DELAY},
   backoffMultiplier : {DEFAULT_BACKOFF_MULTIPLIER}, jitter : {TRUE},
   shouldRetry : ShouldRetryNames, onRetryThrows : BOOLEAN]

\* retry(operation, config), up to its first await
RetryCall(config) ==
  /\ ~InFlight(call)
  /\ call' = retry(client, "retry", config)
  /\ UNCHANGED <<probe, client, peer, host>>

\* the awaited operation() resolves
OperationResolves(value) ==
  /\ call.pc = "operation"
  /\ call.kind = "retry"
  /\ call' = Resolve(call, value)
  /\ UNCHANGED <<probe, client, peer, host>>

\* the awaited operation() rejects: the catch block runs
OperationRejects(error, rnd) ==
  /\ call.pc = "operation"
  /\ call.kind = "retry"
  /\ call' = retryCatch([call EXCEPT !.thrownFirst = IF call.calls = 1 THEN error ELSE @,
                                     !.thrownLast = error,
                                     !.allAccepted = @ /\ shouldRetry(call.config.shouldRetry, error)],
                        error, rnd)
  /\ UNCHANGED <<probe, client, peer, host>>

RetryNext ==
  \/ \E config \in RetryConfigs : RetryCall(config)
  \/ \E value \in OkBodies : OperationResolves(value)
  \/ \E error \in GenericErrors, rnd \in RandomDraws : OperationRejects(error, rnd)
  \/ SleepDone

RetrySpec == Init /\ [][RetryNext]_vars

\* the awaited operation() settles, one way or the other
OperationSettles ==
  \/ \E value \in OkBodies : OperationResolves(value)
  \/ \E error \in GenericErrors, rnd \in RandomDraws : OperationRejects(error, rnd)

\* retry() under an operation and a sleep that always settle
RetryLiveSpec ==
  Init /\ [][RetryNext]_vars /\ WF_vars(OperationSettles) /\ WF_vars(SleepDone)

\* the classifier and the retryability predicate as pure functions
ClassifyStatuses == {0, 200, 304} \cup (400..600)
ClassifyRequestIds == {None, Some("r1")}

\* values handed to isRetryableError directly: every class of the taxonomy, a
\* ServerError built with a status below 500 or with none, and values outside
\* the taxonomy (a plain Error, the plain object toJSON() gives, undefined)
ProbeValues ==
  {NetworkError("connection lost", None), TimeoutError(Some(10000), None),
   RateLimitError("slow down", Some(3), None), RateLimitError("slow down", None, None),
   ValidationError("email invalid", Some("d1"), None),
   AuthenticationError("no token", None), AuthorizationError("forbidden", None),
   NotFoundError("upload", Some("u1"), None), ConflictError("exists", None),
   ServiceUnavailableError("upload", None),
   ClientError("HTTP 418 error", "HTTP_ERROR", Some(418), None, None),
   ClientError("HTTP 500 error", "HTTP_ERROR", Some(500), None, None),
   ServerError("boom", None, None), ServerError("boom", Some(500), None),
   ServerError("boom", Some(599), None), ServerError("boom", Some(499), None),
   ServerError("boom", Some(404), None), ServerError("boom", Some(0), None),
   [HookError EXCEPT !.message = "plain"],
   [NetworkError("connection lost", None) EXCEPT !.proto = "Object"],
   [ServerError("boom", Some(500), None) EXCEPT !.proto = "Object"],
   Undefined}

\* isRetryableError(createErrorFromResponse(status, data, requestId))
Classify(status, data, requestId) ==
  /\ LET error == createErrorFromResponse(status, data, requestId)
     IN probe' = [fn |-> "createErrorFromResponse", status |-> status,
                  data |-> data, requestId |-> requestId,
                  result |-> error, retryable |-> isRetryableError(error), ok |-> FALSE,
                  args |-> <<>>, out |-> <<>>]
  /\ UNCHANGED <<client, call, peer, host>>

\* isRetryableError(value)
Inspect(value) ==
  /\ probe' = [fn |-> "isRetryableError", status |-> 0,
               data |-> BodyUndefined, requestId |-> None,
               result |-> value, retryable |-> isRetryableError(value), ok |-> FALSE,
               args |-> <<>>, out |-> <<>>]
  /\ UNCHANGED <<client, call, peer, host>>

ClassifyNext ==
  \/ \E status \in ClassifyStatuses, data \in ErrorBodies, requestId \in ClassifyRequestIds :
       Classify(status, data, requestId)
  \/ \E value \in ProbeValues : Inspect(value)

ClassifySpec == Init /\ [][ClassifyNext]_vars

\* classification of a failure and of its toJSON() form
Classification(value) ==
  [retryable |-> isRetryableError(value),
   kinds |-> {cls \in KindClasses : isKindError(cls, value)}]

\* failures of the taxonomy: what the client builds from responses, and
\* instances built directly
TaxonomyFailures ==
  {createErrorFromResponse(status, data, requestId) :
     status \in ClassifyStatuses, data \in ErrorBodies, requestId \in ClassifyRequestIds}
    \cup {value \in ProbeValues : isClientError(value)}

SerializeInit ==
  /\ probe \in {[InitProbe EXCEPT !.fn = "input", !.result = f] : f \in TaxonomyFailures}
  /\ client = NoClient
  /\ call = IdleCall
  /\ peer = IdleCall
  /\ host = InitHost

\* const o = f.toJSON(); the predicates applied to f and to o
ToJSON ==
  /\ probe.fn = "input"
  /\ probe' = [probe EXCEPT !.fn = "toJSON",
                            !.out = [json |-> toJSON(probe.result),
                                     before |-> Classification(probe.result),
                                     after |-> Classification(toJSON(probe.result))]]
  /\ UNCHANGED <<client, call, peer, host>>

SerializeNext == ToJSON

SerializeSpec == SerializeInit /\ [][SerializeNext]_vars

(***************************************************************************)
(* Retry engine properties (RetrySpec)                                     *)
(***************************************************************************)

\* a direct retry() call all of whose invocations so far failed with failures
\* its predicate accepts, under a hook that does not throw
AllFailedAccepted ==
  /\ call.kind = "retry"
  /\ call.pc /= "resolved"
  /\ call.allAccepted
  /\ ~call.config.onRetryThrows

\* C1: retry exhaustion.  For maxAttempts >= 1, when every invocation fails and
\* shouldRetry accepts every failure, the operation is invoked exactly
\* maxAttempts times (never more, and the call does not settle before), and the
\* call then rejects with the failure the last invocation threw.
C1_RetryExhaustion ==
  (AllFailedAccepted /\ IsSome(call.config.maxAttempts) /\ Val(call.config.maxAttempts) >= 1)
    => /\ call.calls <= Val(call.config.maxAttempts)
       /\ call.pc = "sleeping" => call.calls < Val(call.config.maxAttempts)
       /\ call.pc = "rejected" => /\ call.calls = Val(call.config.maxAttempts)
                                  /\ call.error = call.thrownLast

\* C1 witness: three failing invocations under maxAttempts = 3, the first and the
\* last failure different, the call rejected
C1_Witness ==
  /\ AllFailedAccepted
  /\ call.config.maxAttempts = Some(3)
  /\ call.pc = "rejected"
  /\ call.calls = 3
  /\ call.thrownFirst /= call.thrownLast
  /\ call.error = call.thrownLast

\* the last invocation failed with a failure the predicate refuses
LastFailureRefused ==
  /\ call.kind = "retry"
  /\ call.thrownLast /= Undefined
  /\ ~shouldRetry(call.config.shouldRetry, call.thrownLast)

\* C2: non-retryable short-circuit.  Once an invocation fails with an error that
\* shouldRetry refuses, the call is rejected with that very error: the operation
\* is not invoked again, and neither onRetry nor sleep ran for that failure
\* (each ran once for every earlier failure only).
C2_ShortCircuit ==
  LastFailureRefused
    => /\ call.pc = "rejected"
       /\ call.error = call.thrownLast
       /\ call.calls = call.attempt
       /\ call.onRetryCalls = call.calls - 1
       /\ call.sleeps = call.calls - 1

\* C2 witness: a validation error on the first of five allowed attempts
C2_Witness ==
  /\ LastFailureRefused
  /\ call.config.maxAttempts = Some(5)
  /\ call.config.shouldRetry = "isRetryableError"
  /\ call.thrownLast.proto = "ValidationError"
  /\ call.pc = "rejected"
  /\ call.calls = 1
  /\ call.onRetryCalls = 0
  /\ call.sleeps = 0

(***************************************************************************)
(* Request engine properties (Spec)                                        *)
(***************************************************************************)

\* what request() settles with when its last transport call ended in outcome:
\* recomputed here from the outcome alone
IsFailEnvelope(data) == data.type = "object" /\ data.success = "false"

\* C3: with skipRetry set on the request or a configured retry count of 0,
\* request() makes exactly one transport call, never sleeps, and settles with
\* that call's outcome (even a retryable failure); otherwise it makes at most
\* retries + 1 transport calls (none are made when retries is undefined, which
\* is within the default's bound).
C3_SingleCallWithoutRetry ==
  call.kind = "request"
    => IF call.skipRetry \/ client.retries = Some(0)
         THEN /\ call.calls = 1
              /\ call.sleeps = 0
              /\ call.pc \in {"operation", "resolved", "rejected"}
              /\ Settled(call) =>
                   LET r == executeRequest(client, call.lastOutcome)
                   IN IF r.ok THEN call.pc = "resolved" /\ call.value = r.value
                              ELSE call.pc = "rejected" /\ call.error = r.error
         ELSE call.calls <= (IF IsSome(client.retries) THEN Val(client.retries)
                                                       ELSE DEFAULT_RETRIES) + 1

\* C3 witness: skipRetry on a client with retries 2, the single transport call
\* refused (a retryable NetworkError), the request rejected with it
C3_Witness ==
  /\ call.kind = "request"
  /\ call.skipRetry
  /\ client.retries = Some(2)
  /\ call.lastOutcome = NoResponse("ECONNREFUSED")
  /\ call.pc = "rejected"
  /\ call.error.proto = "NetworkError"
  /\ call.calls = 1

\* C4 (as claimed): a client built with timeout or retries omitted, directly or
\* through UploadClient / AuthClient, runs with timeout 10000 and retries 2, an
\* omitted audience is external, and a request whose every attempt fails
\* retryably is dispatched exactly 3 times.
C4_DefaultsApplied ==
  (client.state = "ready" /\ client.cls \in {"ProfileClient", "UploadClient", "AuthClient"})
    => /\ client.omitted.timeout => client.timeout = Some(10000)
       /\ client.omitted.retries => client.retries = Some(2)
       /\ client.omitted.audience => client.apiType = Some("external")
       /\ (/\ client.omitted.retries
           /\ call.kind = "request" /\ ~call.skipRetry /\ Settled(call)
           /\ call.allAccepted)
            => call.calls = 3

\* C5 (as claimed): a failure built from any 5xx response is retryable, so the
\* request is dispatched again while attempts remain: it is never rejected with
\* such a failure before the last allowed attempt.
C5_Every5xxRetried ==
  (/\ call.kind = "request" /\ call.wrapped /\ call.pc = "rejected"
   /\ call.lastOutcome.type = "error" /\ call.lastOutcome.hasResponse
   /\ call.lastOutcome.status >= 500 /\ call.lastOutcome.status <= 599)
    => /\ isRetryableError(call.error)
       /\ Some(call.attempt) = call.config.maxAttempts

\* C6: retryability partition.  isRetryableError is true exactly for a
\* NetworkError, a TimeoutError, a RateLimitError and a ServerError whose status
\* is at least 500, and false for every other value: the other classes of the
\* taxonomy (ServiceUnavailableError and the generic HTTP failure included), a
\* ServerError with a status below 500, and any value outside the taxonomy.
C6_RetryabilityPartition ==
  probe.fn /= "none"
    => (probe.retryable
          <=> \/ probe.result.proto \in {"NetworkError", "TimeoutError", "RateLimitError"}
              \/ /\ probe.result.proto = "ServerError"
                 /\ IsSome(probe.result.statusCode)
                 /\ Val(probe.result.statusCode) >= 500)

\* the classifier's failure for a 503 response is inspected and is not retryable
C6_Witness ==
  /\ probe.fn = "createErrorFromResponse"
  /\ probe.status = 503
  /\ probe.result.proto = "ServiceUnavailableError"
  /\ ~probe.retryable

\* the class and code the table gives a status
TableKind(status) ==
  CASE status = 400 -> <<"ValidationError", "VALIDATION_ERROR">>
    [] status = 401 -> <<"AuthenticationError", "AUTHENTICATION_ERROR">>
    [] status = 403 -> <<"AuthorizationError", "AUTHORIZATION_ERROR">>
    [] status = 404 -> <<"NotFoundError", "NOT_FOUND_ERROR">>
    [] status = 409 -> <<"ConflictError", "CONFLICT_ERROR">>
    [] status = 429 -> <<"RateLimitError", "RATE_LIMIT_ERROR">>
    [] status = 503 -> <<"ServiceUnavailableError", "SERVICE_UNAVAILABLE_ERROR">>
    [] OTHER -> IF status >= 500 THEN <<"ServerError", "SERVER_ERROR">>
                                 ELSE <<"ClientError", "HTTP_ERROR">>

\* C14: classifier completeness.  For every status and body the classifier
\* returns a failure of the taxonomy whose class follows the table (400, 401,
\* 403, 404, 409, 429, 503 to their own classes, any other status >= 500 to
\* ServerError, any other status below 500 to the generic failure with code
\* HTTP_ERROR) and which carries the raw status.
C14_ClassifierTable ==
  probe.fn = "createErrorFromResponse"
    => /\ isClientError(probe.result)
       /\ probe.result.proto = TableKind(probe.status)[1]
       /\ probe.result.code = TableKind(probe.status)[2]
       /\ probe.result.statusCode = Some(probe.status)

\* an unlisted status below 500 gives the generic failure with the raw status
C14_Witness ==
  /\ probe.fn = "createErrorFromResponse"
  /\ probe.status = 418
  /\ probe.result.proto = "ClientError"
  /\ probe.result.code = "HTTP_ERROR"
  /\ probe.result.statusCode = Some(418)

\* C15 (as claimed): for every status, the failure built from a body with an
\* error field has message body.error.message and details body.error.details,
\* unchanged, and the given request id; without an error field the message is
\* "HTTP <status> error".
C15_MessageAndDetailsKept ==
  probe.fn = "createErrorFromResponse"
    => LET errorData == ErrorDataOf(probe.data)
       IN /\ probe.result.requestId = probe.requestId
          /\ IsSome(errorData)
               => /\ Some(probe.result.message) = Val(errorData).message
                  /\ probe.result.details = Val(errorData).details
          /\ ~IsSome(errorData)
               => probe.result.message = "HTTP " \o ToString(probe.status) \o " error"

\* C7: once a transport attempt returns 400, 401, 403, 404 or 409 the request is
\* settled: it is never dispatched again and never sleeps, for every retry
\* count 0..5, and when that attempt was the first the request made exactly one
\* transport call.
BusinessStatuses == {400, 401, 403, 404, 409}

LastWasBusinessError ==
  /\ call.kind = "request"
  /\ call.lastOutcome.type = "error"
  /\ call.lastOutcome.hasResponse
  /\ call.lastOutcome.status \in BusinessStatuses

C7_BusinessErrorsNotRetried ==
  LastWasBusinessError
    => /\ Settled(call)
       /\ call.calls = call.attempt
       /\ call.attempt = 1 => call.calls = 1 /\ call.sleeps = 0

\* C7 witness: a 404 without an envelope on the first attempt of a client with
\* retries 5; the request is rejected after one transport call
C7_Witness ==
  /\ LastWasBusinessError
  /\ client.retries = Some(5)
  /\ ~call.skipRetry
  /\ call.lastOutcome.status = 404
  /\ call.lastOutcome.data = BodyUndefined
  /\ call.pc = "rejected"
  /\ call.error.proto = "NotFoundError"
  /\ call.calls = 1

\* C8: pass-through.  A request whose last transport call failed with an HTTP
\* error response resolves with exactly the response body when that body is an
\* object carrying success:false, and otherwise rejects with the failure the
\* classifier builds from the response.
LastWasHttpError ==
  /\ call.kind = "request"
  /\ call.lastOutcome.type = "error"
  /\ call.lastOutcome.hasResponse

C8_PassThrough ==
  LastWasHttpError
    => IF IsFailEnvelope(call.lastOutcome.data)
         THEN call.pc = "resolved" /\ call.value = call.lastOutcome.data
         ELSE /\ call.pc /= "resolved"
              /\ call.pc = "rejected" =>
                   call.error = createErrorFromResponse(call.lastOutcome.status,
                                  call.lastOutcome.data, call.lastOutcome.requestId)

\* C8 witness: HTTP 400 with the envelope {success:false, error:{message:"email
\* invalid"}}; the request resolved with that body
C8_Witness ==
  /\ LastWasHttpError
  /\ call.lastOutcome.status = 400
  /\ call.lastOutcome.data = EnvelopeFail
  /\ call.pc = "resolved"
  /\ call.value = EnvelopeFail

\* C9: a transport failure without an HTTP response is never returned as a
\* value: the request does not resolve on it, and when it rejects on it the
\* failure is a NetworkError for ECONNREFUSED / ENOTFOUND and a TimeoutError for
\* ECONNABORTED, in every configuration and after any number of retries.
LastWasNoResponse ==
  /\ call.kind = "request"
  /\ call.lastOutcome.type = "error"
  /\ ~call.lastOutcome.hasResponse

C9_NoResponseAlwaysThrown ==
  LastWasNoResponse
    => /\ call.pc /= "resolved"
       /\ call.pc = "rejected" =>
            /\ call.lastOutcome.code \in {"ECONNREFUSED", "ENOTFOUND"}
                 => call.error.proto = "NetworkError"
            /\ call.lastOutcome.code = "ECONNABORTED"
                 => call.error.proto = "TimeoutError"

\* C9 witness: the third attempt of a request times out and the request rejects
\* with a TimeoutError
C9_Witness ==
  /\ LastWasNoResponse
  /\ call.lastOutcome.code = "ECONNABORTED"
  /\ call.calls = 3
  /\ call.pc = "rejected"
  /\ call.error.proto = "TimeoutError"

\* C17 (as claimed): for every client constructed with an explicit retries
\* value r from 0 to 5, r is the retry count the request engine uses: a request
\* makes at most r + 1 transport calls, and with r = 0 exactly one.
C17_ExplicitRetriesUsed ==
  (client.state = "ready" /\ IsSome(client.asked) /\ call.kind = "request")
    => /\ call.calls <= Val(client.asked) + 1
       /\ (client.asked = Some(0) /\ Settled(call)) => call.calls = 1

(***************************************************************************)
(* Credential cell properties (CredentialSpec)                             *)
(***************************************************************************)

\* C10 (as claimed): for every per-service client, a request issued after
\* setAccessToken(t) carries Authorization: Bearer t for the latest t, and a
\* request issued after clearAccessToken() carries no Authorization header.
C10_CredentialCell ==
  (call.kind = "request" /\ call.calls >= 1 /\ ~call.tokenChanged)
    => /\ client.tokenOp = "set" => call.sentAuth = client.tokenSet
       /\ client.tokenOp = "clear" => call.sentAuth = None

\* C11 (as claimed): no retroactive re-authentication.  Every attempt of a
\* request, retries sent after a backoff sleep included, carries the credential
\* that was current when the request was issued, whatever setAccessToken or
\* clearAccessToken calls happen while it is in flight.
C11_NoRetroactiveReauth ==
  (call.kind = "request" /\ call.calls >= 1)
    => call.sentAuth = call.issuedAuth

(***************************************************************************)
(* Concurrent requests (ConcurrentSpec)                                    *)
(***************************************************************************)

\* what one request shows of itself: its attempt counter counts its own
\* transport calls, its policy is the client's, it stays within retries + 1
\* calls, it gives up early only on a failure of its own that is not retryable,
\* and it settles with what executeRequest makes of its own last response
OwnOutcomeOnly(c) ==
  c.kind = "request"
    => /\ c.attempt = c.calls
       /\ c.calls <= Val(client.retries) + 1
       /\ c.wrapped <=> ~(c.skipRetry \/ client.retries = Some(0))
       /\ c.wrapped => c.config.maxAttempts = Some(Val(client.retries) + 1)
       /\ ~c.wrapped => c.calls = 1
       /\ c.pc = "sleeping" => isRetryableError(c.lastError)
       /\ Settled(c)
            => LET r == executeRequest(client, c.lastOutcome)
               IN /\ c.pc = "resolved" <=> r.ok
                  /\ c.pc = "resolved" => c.value = r.value
                  /\ c.pc = "rejected" => c.error = r.error
                  /\ (c.pc = "rejected" /\ c.wrapped /\ c.calls <= Val(client.retries))
                       => ~isRetryableError(c.error)

\* C12: requests issued concurrently on one client are independent under
\* every interleaving of their transport completions and sleeps: each has its
\* own attempt counter and policy, makes at most retries + 1 transport calls
\* and settles with the outcome of its own transport responses only.
C12_ConcurrentIndependent == OwnOutcomeOnly(call) /\ OwnOutcomeOnly(peer)

\* both requests are in flight at once, at different attempts: the first sleeps
\* after its second failure while the second awaits its third transport call
C12_Witness ==
  /\ call.kind = "request" /\ call.pc = "sleeping" /\ call.calls = 2
  /\ peer.kind = "request" /\ peer.pc = "operation" /\ peer.calls = 3
  /\ call.lastOutcome /= peer.lastOutcome

(***************************************************************************)
(* Timeouts (TimeoutSpec)                                                  *)
(***************************************************************************)

\* C13 (as claimed): when the transport never responds within the timeout, the
\* request makes at most retries + 1 attempts, never resolves, and when it
\* rejects it rejects with a TimeoutError and nothing else, for every client.
C13_TimeoutRejects ==
  call.kind = "request"
    => /\ call.pc /= "resolved"
       /\ call.pc = "rejected" => call.error.proto = "TimeoutError"
       /\ IsSome(client.retries) => call.calls <= Val(client.retries) + 1

(***************************************************************************)
(* Construction (ValidationSpec)                                           *)
(***************************************************************************)

\* a configuration every member of which is in range: environment and audience
\* members of their enums, timeout (when given) within 1000..60000, retries
\* (when given) within 0..5
InRange(config) ==
  /\ config.environment.present /\ IsSome(config.environment.v)
  /\ Val(config.environment.v) \in Environments
  /\ config.apiType.present /\ IsSome(config.apiType.v)
  /\ Val(config.apiType.v) \in ApiTypes
  /\ IsSome(config.timeout.v)
       => Val(config.timeout.v) >= 1000 /\ Val(config.timeout.v) =< 60000
  /\ IsSome(config.retries.v)
       => Val(config.retries.v) >= 0 /\ Val(config.retries.v) =< 5

\* C16 (as claimed): construction fails closed.  It throws, and no client
\* exists, whenever environment or audience is outside its enum, timeout is a
\* number below 1000 or above 60000, or retries is a number below 0 or above 5;
\* it succeeds for every in-range configuration.
C16_FailsClosed ==
  client.given /= NoConfig
    => /\ InRange(client.given) => client.state = "ready" /\ ~client.threw
       /\ ~InRange(client.given) => client.state = "none" /\ client.threw

(***************************************************************************)
(* Rate limiting (RateLimitSpec)                                           *)
(***************************************************************************)

\* the last attempt of the request was answered 429 with a retry-after hint
LastWasHintedRateLimit ==
  /\ call.kind = "request"
  /\ call.lastOutcome.status = 429
  /\ IsSome(call.lastOutcome.retryAfter)

\* C18 (as claimed): when a 429 response carries a retry-after hint, the failure
\* is a RateLimitError holding that hint, and the delay the retry engine waits
\* before the next attempt is at least the hinted number of seconds.
C18_RateLimitHint ==
  LastWasHintedRateLimit
    => /\ call.pc = "sleeping"
            => /\ call.lastError.proto = "RateLimitError"
               /\ call.lastError.retryAfter = call.lastOutcome.retryAfter
               /\ call.delay >= 1000 * Val(call.lastOutcome.retryAfter)
       /\ call.pc = "rejected"
            => /\ call.error.proto = "RateLimitError"
               /\ call.error.retryAfter = call.lastOutcome.retryAfter

(***************************************************************************)
(* Successful responses (ResponseSpec)                                     *)
(***************************************************************************)

\* C19: on a successful transport response the request resolves with the
\* decoded body itself: a non-object body unmodified, an object with a success
\* field as the whole envelope (success true and false alike, neither unwrapped
\* to its data nor thrown), an object without a success field as it is.
C19_BodyReturnedAsIs ==
  (call.kind = "request" /\ call.lastOutcome.type = "response")
    => /\ call.pc = "resolved"
       /\ call.value = call.lastOutcome.data

\* a retried request whose second attempt is answered 200 with a success
\* envelope resolves with the envelope, data still inside it
C19_Witness ==
  /\ call.kind = "request"
  /\ call.lastOutcome.type = "response"
  /\ call.lastOutcome.data = EnvelopeOk
  /\ call.calls = 2
  /\ call.pc = "resolved"
  /\ call.value.type = "object" /\ call.value.success = "true"
  /\ call.value.data = Some("u1")

(***************************************************************************)
(* Configuration lifecycle (ImmutableSpec)                                 *)
(***************************************************************************)

\* environment, audience, base URL, timeout, retries and debug flag of a client
Settings(c) == <<c.environment, c.apiType, c.baseUrl, c.timeout, c.retries, c.debug>>

\* the settings are those the constructor left
SettingsFrozen ==
  client.state = "ready" => Settings(client) = SubSeq(client.built, 1, 6)

\* C20 (as claimed): after construction the environment, audience, base URL,
\* timeout, retries and debug flag of a client never change, whatever requests,
\* health checks, getConfig() calls, writes to the object getConfig returned
\* or ambient signal changes follow; setAccessToken and clearAccessToken
\* change the authToken slot (to the token set, to nothing) and nothing else.
C20_ConfigImmutable ==
  client.state = "ready"
    => /\ SettingsFrozen
       /\ client.tokenOp = "none" => client.authToken = client.built[7]
       /\ client.tokenOp = "set" => client.authToken = client.tokenSet
       /\ client.tokenOp = "clear" => client.authToken = None
       /\ client.defaultAuth = None

(***************************************************************************)
(* Health check (HealthSpec)                                               *)
(***************************************************************************)

\* C21: healthCheck() never rejects.  It performs exactly one GET /health with
\* a 2 s timeout and no retry, resolves true exactly when the response status
\* is 200, and resolves false on every failure (no response, timeout, HTTP
\* error response).
C21_HealthCheckBoolean ==
  probe.fn = "healthCheck"
    => LET outcome == probe.args[1]
       IN /\ probe.out.settled = "resolved"
          /\ probe.out.calls = 1
          /\ probe.out.path = "/health"
          /\ probe.out.timeout = 2000
          /\ probe.out.value <=> (outcome.type = "response" /\ outcome.status = 200)
          /\ outcome.type = "error" => probe.out.value = FALSE

\* a health check whose transport call timed out resolved false
C21_Witness ==
  /\ probe.fn = "healthCheck"
  /\ probe.args[1] = NoResponse("ECONNABORTED")
  /\ probe.out.settled = "resolved"
  /\ probe.out.value = FALSE

(***************************************************************************)
(* Backoff calculator (DelaySpec)                                          *)
(***************************************************************************)

\* min(initialDelay * multiplier^k, maxDelay) for the probe's inputs
CappedOf(in) == Min(in.initialDelay * Pow(in.multiplier, in.attempt), in.maxDelay)

\* C22: backoff cap.  With jitter disabled the delay for attempt index k is
\* exactly min(initialDelay * multiplier^k, maxDelay) and never exceeds
\* maxDelay; with initialDelay 1000, multiplier 2, maxDelay 10000 the delay for
\* k = 10 is exactly 10000.
C22_BackoffCap ==
  (probe.fn = "calculateDelay" /\ ~probe.args[1].jitter)
    => LET in == probe.args[1]
       IN /\ probe.out.delay = CappedOf(in)
          /\ probe.out.delay <= in.maxDelay
          /\ (in.initialDelay = 1000 /\ in.multiplier = 2 /\ in.maxDelay = 10000
               /\ in.attempt = 10) => probe.out.delay = 10000

\* the delay for k = 10 under 1000 / 2 / 10000 without jitter is 10000
C22_Witness ==
  /\ probe.fn = "calculateDelay"
  /\ ~probe.args[1].jitter
  /\ probe.args[1].initialDelay = 1000 /\ probe.args[1].multiplier = 2
  /\ probe.args[1].maxDelay = 10000 /\ probe.args[1].attempt = 10
  /\ probe.out.delay = 10000

\* delay(k + 1) >= delay(k), delay(k) <= maxDelay, and a delay at the cap stays there
MonotoneAndCapped ==
  LET in == probe.args[1]
  IN /\ probe.out.next >= probe.out.delay
     /\ probe.out.delay <= in.maxDelay
     /\ probe.out.delay = in.maxDelay => probe.out.next = in.maxDelay

\* C23 (as claimed): backoff monotonicity.  With jitter disabled, for every
\* attempt index k >= 0 and every policy the engine accepts, delay(k + 1) >=
\* delay(k), and once the cap is reached the delay stays at maxDelay.
C23_MonotoneEveryPolicy ==
  (probe.fn = "calculateDelay" /\ ~probe.args[1].jitter) => MonotoneAndCapped

\* C23 (amended): the same for every policy whose backoffMultiplier is at least 1
\* (with non-negative initialDelay and maxDelay).
C23_MonotoneGrowingPolicy ==
  (probe.fn = "calculateDelay" /\ ~probe.args[1].jitter /\ probe.args[1].multiplier >= 1)
    => MonotoneAndCapped

\* multiplier 2: the delay grows from 4000 to 8000 below the cap 10000
C23_Witness ==
  /\ probe.fn = "calculateDelay"
  /\ ~probe.args[1].jitter
  /\ probe.args[1].multiplier = 2 /\ probe.args[1].maxDelay = 10000
  /\ probe.out.delay = 4000 /\ probe.out.next = 8000

\* C24: jitter bound.  With jitter enabled every delay lies between 0.75 *
\* capped and 1.25 * capped, capped = min(initialDelay * multiplier^k,
\* maxDelay), and is never negative.
C24_JitterBound ==
  (probe.fn = "calculateDelay" /\ probe.args[1].jitter)
    => LET capped == CappedOf(probe.args[1])
       IN /\ 4 * probe.out.delay >= 3 * capped
          /\ 4 * probe.out.delay <= 5 * capped
          /\ probe.out.delay >= 0

\* the lowest draw on a capped delay of 1000 gives 750
C24_Witness ==
  /\ probe.fn = "calculateDelay"
  /\ probe.args[1].jitter /\ probe.args[1].rnd = 0
  /\ CappedOf(probe.args[1]) = 1000
  /\ probe.out.delay = 750

(***************************************************************************)
(* Endpoint resolution (EndpointSpec)                                      *)
(***************************************************************************)

\* C25 (as claimed): endpoint resolution is a deterministic lookup, total over
\* the three environments and two audiences: the same pair always yields the
\* same non-empty URL, and a pair with no table entry makes it throw instead
\* of returning a value.
C25_EndpointLookup ==
  (probe.fn = "getEndpoint" /\ Len(probe.out) >= 1)
    => LET in == probe.args[1]
       IN \A i \in 1..Len(probe.out) :
            IF in.environment \in Environments /\ in.apiType \in ApiTypes
              THEN /\ ~probe.out[i].threw
                   /\ probe.out[i].value = ENDPOINTS(in.environment, in.apiType)
                   /\ Val(probe.out[i].value) /= ""
                   /\ probe.out[i] = probe.out[1]
              ELSE probe.out[i].threw

(***************************************************************************)
(* Environment detection (DetectSpec)                                      *)
(***************************************************************************)

\* the tokens each signal recognises, in any letter case
ProductionStage == {Some(v) : v \in {"prod", "PROD", "production", "Production"}}
StagingStage == {Some(v) : v \in {"staging", "STAGING"}}
DevelopmentStage == {Some(v) : v \in {"dev", "DEV", "development", "Development"}}
ProductionNodeEnv == {Some(v) : v \in {"production", "PRODUCTION"}}
StagingNodeEnv == {Some(v) : v \in {"staging", "Staging"}}

\* C26: detectEnvironment gives STAGE precedence.  STAGE (case-insensitive)
\* prod / production yields production, staging yields staging, dev /
\* development yields development, whatever NODE_ENV says; only when STAGE is
\* absent or unrecognised does NODE_ENV decide (production or staging); in
\* every remaining case the result is development.
C26_StagePrecedence ==
  probe.fn = "detectEnvironment"
    => LET stage == probe.args[1]
           nodeEnv == probe.args[2]
       IN probe.out =
            (IF stage \in ProductionStage THEN "production"
             ELSE IF stage \in StagingStage THEN "staging"
             ELSE IF stage \in DevelopmentStage THEN "development"
             ELSE IF nodeEnv \in ProductionNodeEnv THEN "production"
             ELSE IF nodeEnv \in StagingNodeEnv THEN "staging"
             ELSE "development")

\* STAGE=DEV with NODE_ENV=production is development
C26_Witness ==
  /\ probe.fn = "detectEnvironment"
  /\ probe.args[1] = Some("DEV")
  /\ probe.args[2] = Some("production")
  /\ probe.out = "development"

(***************************************************************************)
(* Classification across serialization (SerializeSpec)                     *)
(***************************************************************************)

\* C27: for every failure f of the taxonomy, isRetryable and each kind
\* predicate give the same answer for the plain object f.toJSON() as for f.
C27_ClassificationSurvives ==
  probe.fn = "toJSON" => probe.out.after = probe.out.before

\* what does hold: the plain object is never classified as anything
C27_PlainObjectUnclassified ==
  probe.fn = "toJSON" => probe.out.after = [retryable |-> FALSE, kinds |-> {}]

(***************************************************************************)
(* The baseUrl option (BaseUrlSpec)                                        *)
(***************************************************************************)

\* the baseUrl the caller constructed the client with, if any
GivenBaseUrl == IF probe.args = <<>> THEN None ELSE probe.args[1].baseUrl

\* C28: when baseUrl is given at per-service client construction it overrides
\* the environment-resolved endpoint: getBaseUrl() returns it and every
\* request of that client targets it.
C28_BaseUrlOverride ==
  (client.state = "ready" /\ probe.fn \in {"getBaseUrl", "request"}
     /\ IsSome(GivenBaseUrl))
    => probe.out = GivenBaseUrl

\* what the clients do: the endpoint table decides, baseUrl or not
C28_EndpointTableDecides ==
  (client.state = "ready" /\ probe.fn \in {"getBaseUrl", "request"})
    => probe.out = ENDPOINTS(Val(client.environment), Val(client.apiType))

(***************************************************************************)
(* The onRetry hook and the sleep (RetrySpec)                              *)
(***************************************************************************)

\* the delays calculateDelay can give for attempt index k under the call's policy
BackoffDelays(k) ==
  {calculateDelay(k, call.config.initialDelay, call.config.maxDelay,
                  call.config.backoffMultiplier, call.config.jitter, rnd) :
     rnd \in RandomDraws}

\* hook calls and sleeps counted against invocations, for a hook that returns:
\* while attempt n runs, n - 1 of each; while the sleep after attempt n lasts,
\* n of each; once the call has settled after n invocations, n - 1 of each
C29_Counts ==
  (call.kind = "retry" /\ ~call.config.onRetryThrows /\ call.calls >= 1)
    => /\ call.onRetryCalls = call.sleeps
       /\ call.sleeps = (IF call.pc = "sleeping" THEN call.calls ELSE call.calls - 1)

\* one step of a retry() call: a hook call happens when an invocation has just
\* failed, with that failure and that invocation's number, and is followed at
\* once by the sleep for index number - 1; no sleep starts without a hook call;
\* a further invocation starts only when a sleep ends
C29_Step ==
  (call.kind = "retry" /\ call'.kind = "retry" /\ InFlight(call))
    => /\ call'.onRetryCalls \in {call.onRetryCalls, call.onRetryCalls + 1}
       /\ call'.onRetryCalls = call.onRetryCalls + 1
            => /\ call.pc = "operation"
               /\ call'.hook = <<call'.thrownLast, call.calls>>
               /\ ~call.config.onRetryThrows
                    => /\ call'.pc = "sleeping"
                       /\ call'.sleeps = call.sleeps + 1
                       /\ call'.delay \in BackoffDelays(call.calls - 1)
       /\ call'.sleeps /= call.sleeps => call'.onRetryCalls = call.onRetryCalls + 1
       /\ call'.calls /= call.calls
            => /\ call.pc = "sleeping"
               /\ call'.calls = call.calls + 1
               /\ call'.pc = "operation"

\* C29: before every retry, and only then, retry() calls onRetry exactly once
\* with the failure of the attempt that just failed and that attempt's 1-based
\* number, then sleeps the backoff delay computed for attemptIndex =
\* attemptNumber - 1, then invokes the operation again; there is no onRetry
\* call and no sleep before the first attempt or after the final one.
C29_HookSleepRetry == []C29_Counts /\ [][C29_Step]_vars

\* the second attempt failed: onRetry got that failure and the number 2, and
\* the sleep for index 1 is under way
C29_Witness ==
  /\ call.kind = "retry"
  /\ ~call.config.onRetryThrows
  /\ call.pc = "sleeping"
  /\ call.calls = 2
  /\ call.onRetryCalls = 2
  /\ call.sleeps = 2
  /\ call.thrownFirst /= call.thrownLast
  /\ call.hook = <<call.thrownLast, 2>>
  /\ call.delay \in BackoffDelays(1)

\* C30: if onRetry throws, retry() rejects with that exception (it supersedes
\* the operation's failure), no sleep happens and the operation is not
\* invoked again.
C30_HookThrows ==
  (call.kind = "retry" /\ call.config.onRetryThrows /\ call.onRetryCalls >= 1)
    => /\ call.pc = "rejected"
       /\ call.error = HookError
       /\ call.error /= call.thrownLast
       /\ call.onRetryCalls = 1
       /\ call.sleeps = 0
       /\ call.calls = 1

\* a retryable failure of the first attempt, the hook threw, the call is
\* rejected with the hook's exception
C30_Witness ==
  /\ call.kind = "retry"
  /\ call.config.onRetryThrows
  /\ call.config.maxAttempts = Some(3)
  /\ call.onRetryCalls = 1
  /\ call.thrownLast = NetworkError("connection lost", None)
  /\ call.pc = "rejected"
  /\ call.error = HookError
  /\ call.calls = 1

(***************************************************************************)
(* Success after failures, zero invocations, termination (RetrySpec)       *)
(***************************************************************************)

\* a resolved retry() call: as many hook calls and sleeps as failures, every
\* failure accepted, within the attempts allowed, no failure reported
C31_Resolved ==
  (call.kind = "retry" /\ call.pc = "resolved")
    => /\ call.calls >= 1
       /\ IsSome(call.config.maxAttempts) /\ call.calls <= Val(call.config.maxAttempts)
       /\ call.allAccepted
       /\ call.onRetryCalls = call.calls - 1
       /\ call.value \in OkBodies
       /\ call.error = Undefined

\* the step that resolves: from the running invocation, with no further one
C31_ResolveStep ==
  (call.kind = "retry" /\ call'.kind = "retry" /\ call'.pc = "resolved"
     /\ call.pc /= "resolved")
    => /\ call.pc = "operation"
       /\ call'.calls = call.calls
       /\ call'.attempt = call.calls

\* C31: if the k-th invocation (k <= maxAttempts) is the first to succeed,
\* after k-1 failures that shouldRetry accepted, retry() resolves with that
\* invocation's value, the operation has been invoked exactly k times, and
\* none of the earlier failures is reported.
C31_SuccessAfterFailures == []C31_Resolved /\ [][C31_ResolveStep]_vars

\* the third of three allowed invocations succeeds after two different failures
C31_Witness ==
  /\ call.kind = "retry"
  /\ call.pc = "resolved"
  /\ call.config.maxAttempts = Some(3)
  /\ call.calls = 3
  /\ call.thrownFirst /= Undefined
  /\ call.thrownLast /= call.thrownFirst
  /\ call.value = EnvelopeOk
  /\ call.error = Undefined

\* C32: every call to retry() invokes the operation at least once before
\* settling, for every maxAttempts value it is given (0, a negative number, or
\* the non-number obtained from an absent retry count included); it never
\* rejects without an operation failure to report.
C32_InvokedAtLeastOnce ==
  (call.kind = "retry" /\ Settled(call))
    => /\ call.calls >= 1
       /\ call.pc = "rejected" => call.error /= Undefined

\* what holds instead: for maxAttempts >= 1 it does; otherwise the operation
\* is never invoked and the call rejects with undefined
C32_ZeroInvocations ==
  (call.kind = "retry" /\ Settled(call))
    => IF IsSome(call.config.maxAttempts) /\ Val(call.config.maxAttempts) >= 1
         THEN call.calls >= 1 /\ (call.pc = "rejected" => call.error /= Undefined)
         ELSE call.calls = 0 /\ call.pc = "rejected" /\ call.error = Undefined

\* the invocations a policy allows: maxAttempts, none when it is not positive
\* or not a number
Allowed(config) ==
  IF IsSome(config.maxAttempts) THEN Max(Val(config.maxAttempts), 0) ELSE 0

C33_Bounded ==
  call.kind = "retry"
    => /\ call.calls <= Allowed(call.config)
       /\ call.sleeps <= Max(Allowed(call.config) - 1, 0)

\* C33: retry() always settles.  Provided every operation invocation and
\* every sleep settles, it resolves or rejects after at most maxAttempts
\* invocations and at most maxAttempts - 1 sleeps, even when shouldRetry
\* always returns true.
C33_AlwaysSettles ==
  /\ []C33_Bounded
  /\ (call.kind = "retry" /\ InFlight(call)) ~> Settled(call)

\* the worst case under shouldRetry always true: five invocations, four sleeps
C33_Witness ==
  /\ call.kind = "retry"
  /\ call.config.shouldRetry = "always"
  /\ ~call.config.onRetryThrows
  /\ call.config.maxAttempts = Some(MaxAttemptsBound)
  /\ call.pc = "rejected"
  /\ call.calls = MaxAttemptsBound
  /\ call.sleeps = MaxAttemptsBound - 1

(***************************************************************************)
(* Error envelopes end the request (Spec)                                  *)
(***************************************************************************)

\* the last transport call was answered by an HTTP error whose body is a
\* success:false envelope
LastWasFailEnvelope ==
  /\ call.kind = "request"
  /\ call.lastOutcome.type = "error"
  /\ call.lastOutcome.hasResponse
  /\ call.lastOutcome.data.type = "object"
  /\ call.lastOutcome.data.success = "false"

\* the request is resolved with the envelope; the hook calls and sleeps are
\* those of the attempts before
C34_Ended ==
  LastWasFailEnvelope
    => /\ call.pc = "resolved"
       /\ call.value = call.lastOutcome.data
       /\ call.onRetryCalls = call.sleeps
       /\ call.sleeps = (IF call.wrapped THEN call.calls - 1 ELSE 0)

\* the step in which such a response arrives resolves the request at once,
\* with no hook call, no sleep and no further transport call
C34_Step ==
  (call.pc = "operation" /\ call.kind = "request" /\ call' /= call
     /\ call'.lastOutcome.type = "error" /\ call'.lastOutcome.hasResponse
     /\ call'.lastOutcome.data.type = "object"
     /\ call'.lastOutcome.data.success = "false")
    => /\ call'.pc = "resolved"
       /\ call'.calls = call.calls
       /\ call'.onRetryCalls = call.onRetryCalls
       /\ call'.sleeps = call.sleeps

\* C34: an HTTP error response whose body is a success:false envelope ends the
\* request on that attempt whatever its status, 429 and 5xx included:
\* request() resolves with the envelope after that transport call, and no
\* retry, onRetry call or backoff sleep follows.
C34_EnvelopeEndsRequest == []C34_Ended /\ [][C34_Step]_vars

\* a 503 carrying the envelope on the second attempt of a retrying client
C34_Witness ==
  /\ LastWasFailEnvelope
  /\ call.lastOutcome.status = 503
  /\ call.wrapped
  /\ call.calls = 2
  /\ call.sleeps = 1
  /\ call.pc = "resolved"
  /\ call.value = EnvelopeFail

(***************************************************************************)
(* Precedence of the failure mapping (HandleErrorSpec)                     *)
(***************************************************************************)

\* C35: every failure of a single transport attempt is mapped to exactly one
\* taxonomy failure by a fixed precedence: error code ECONNREFUSED or
\* ENOTFOUND gives NetworkError, else ECONNABORTED gives TimeoutError, else a
\* present HTTP response gives the classifier's result, else NetworkError;
\* hence every rejection of an attempt is a ClientError, and a failure of
\* unrecognised shape is a NetworkError and therefore retryable.
C35_MappingPrecedence ==
  probe.fn = "handleError"
    => LET error == probe.args[1]
           connect == error.code \in {"ECONNREFUSED", "ENOTFOUND"}
           aborted == error.code = "ECONNABORTED"
       IN /\ connect => probe.result.proto = "NetworkError"
          /\ (~connect /\ aborted) => probe.result.proto = "TimeoutError"
          /\ (~connect /\ ~aborted /\ error.hasResponse)
               => probe.result = createErrorFromResponse(error.status, error.data,
                                                         error.requestId)
          /\ (~connect /\ ~aborted /\ ~error.hasResponse)
               => probe.result.proto = "NetworkError" /\ probe.retryable
          /\ isClientError(probe.result)
          /\ probe.retryable = isRetryableError(probe.result)

\* a transport timeout that carries a 404 response all the same: the code
\* wins, the failure is a TimeoutError and retryable
C35_Witness ==
  /\ probe.fn = "handleError"
  /\ probe.args[1].code = "ECONNABORTED"
  /\ probe.args[1].hasResponse
  /\ probe.args[1].status = 404
  /\ probe.result.proto = "TimeoutError"
  /\ probe.retryable

(***************************************************************************)
(* The unwrap-or-throw revision (UnwrapSpec)                               *)
(***************************************************************************)

\* the last transport call was answered by a 2xx response carrying an envelope
LastWasEnvelope ==
  /\ call.kind = "request"
  /\ call.lastOutcome.type = "response"
  /\ call.lastOutcome.data.type = "object"
  /\ call.lastOutcome.data.success /= "absent"

\* C36: in the unwrap-or-throw revision of the request engine, a successful
\* response whose envelope has success:true makes request() return its data;
\* when data is absent request() rejects with the 'no data' engine error (code
\* NO_DATA), and when success is false it rejects with the failure the
\* classifier builds from the response status and body.
C36_UnwrapOrThrow ==
  LastWasEnvelope
    => LET response == call.lastOutcome
       IN IF response.data.success = "true" /\ response.data.data /= None
            THEN call.pc = "resolved" /\ call.value = Payload(response.data.data)
          ELSE /\ call.pc /= "resolved"
               /\ Settled(call)
                    => call.error =
                         (IF response.data.success = "true"
                            THEN ClientError("API returned success but no data", "NO_DATA",
                                             Some(response.status), None, response.requestId)
                            ELSE createErrorFromResponse(response.status, response.data,
                                                         response.requestId))

\* what holds instead: the success:true case as claimed; the two throwing
\* cases end in a NetworkError built from the thrown failure's message
C36_ThrownIsRemapped ==
  LastWasEnvelope
    => LET response == call.lastOutcome
       IN IF response.data.success = "true" /\ response.data.data /= None
            THEN call.pc = "resolved" /\ call.value = Payload(response.data.data)
          ELSE /\ call.pc /= "resolved"
               /\ call.pc = "rejected" => call.error.proto = "NetworkError"
               /\ call.pc = "sleeping" => call.lastError.proto = "NetworkError"

(***************************************************************************)
(* The upload workflow (UploadSpec)                                        *)
(***************************************************************************)

Flow == probe.out
InUpload == probe.fn \in {"uploadFile", "completeUpload"}

\* the presign request was answered by a 2xx response that carries a url
PresignIssued(flow) ==
  /\ flow.presignOutcome.type = "response"
  /\ UrlOf(flow.presignOutcome.data) /= None

\* the order of the steps, each at most once, finalize and onProgress only
\* after an ok PUT, no finalize after a failed PUT
C37_Order ==
  InUpload
    => /\ Flow.puts <= 1 /\ Flow.finalizes <= 1 /\ Flow.progress <= 1
       /\ Flow.pc = "presign" => Flow.puts = 0 /\ Flow.finalizes = 0 /\ Flow.progress = 0
       /\ Flow.pc = "put" => Flow.finalizes = 0 /\ Flow.progress = 0
       /\ (Flow.finalizes > 0 \/ Flow.progress > 0)
            => Flow.puts = 1 /\ Flow.putOutcome = "ok"
       /\ Flow.finalizes > 0 => Flow.complete
       /\ Flow.putOutcome \in {"notOk", "rejects"}
            => Flow.pc = "rejected" /\ Flow.finalizes = 0

\* C37: completeUpload runs presign, storage PUT and finalizeUpload strictly
\* in that order, the PUT and the finalize call at most once each;
\* finalizeUpload and onProgress(100) happen only after the PUT response was
\* ok, finalizeUpload receives the key issued by the presign step, and a
\* failed PUT makes completeUpload reject without calling finalizeUpload.
C37_CompleteUploadOrder ==
  /\ C37_Order
  /\ (InUpload /\ Flow.finalizes > 0)
       => /\ PresignIssued(Flow)
          /\ Flow.s3Key = KeyOf(Flow.presignOutcome.data)
          /\ Flow.s3Key /= None

\* C38: uploadFile issues its PUT only after the presign request produced a
\* presigned URL, and to exactly the URL the service issued; when the presign
\* request is declined by the service (an error envelope) or fails, no PUT is
\* issued and uploadFile does not resolve with a key.
C38_PutOnlyToIssuedUrl ==
  InUpload
    => /\ Flow.puts > 0
            => PresignIssued(Flow) /\ Flow.putUrl = UrlOf(Flow.presignOutcome.data)
       /\ (Flow.pc /= "presign" /\ ~PresignIssued(Flow))
            => Flow.puts = 0 /\ Flow.pc = "rejected"

\* what holds instead: a rejected presign request stops uploadFile before the
\* PUT; every resolved one, whatever it resolved with, is followed by the PUT
C38_PutFollowsEveryResolvedPresign ==
  (InUpload /\ Flow.pc /= "presign")
    => IF Flow.presigned = BodyUndefined /\ Flow.puts = 0
         THEN Flow.pc = "rejected"
         ELSE Flow.puts = 1 /\ Flow.putUrl = UrlOf(Flow.presigned)

(***************************************************************************)
(* URL expiry (ExpirySpec)                                                 *)
(***************************************************************************)

\* well-formed parameter values: a decimal count of seconds, a timestamp
WellFormedExpires == {"0", "60", "3600"}
WellFormedDates == {"20260101T000000Z", "2026-01-01T00:00:00Z", "20260101T000100Z"}

\* the expiration of the URL cannot be determined
Undetermined(url) ==
  \/ ~url.parsable
  \/ url.expires = None \/ url.date = None
  \/ Val(url.expires) \notin WellFormedExpires
  \/ Val(url.date) \notin WellFormedDates

\* C39: URL expiry checks fail closed.  isUrlExpired returns true whenever the
\* expiration cannot be determined (X-Amz-Expires or X-Amz-Date missing or
\* malformed, or the URL unparsable), getTimeUntilExpiration returns 0 in those
\* cases and is never negative, and for every URL isUrlExpired true implies
\* getTimeUntilExpiration 0.
C39_ExpiryFailsClosed ==
  /\ probe.fn \in {"isUrlExpired", "getTimeUntilExpiration"}
       => (Undetermined(probe.args[1]) => probe.out.expired)
  /\ probe.fn = "getTimeUntilExpiration"
       => /\ Undetermined(probe.args[1]) => probe.out.remaining = Some(0)
          /\ IsSome(probe.out.remaining) /\ Val(probe.out.remaining) >= 0
          /\ probe.out.expired => probe.out.remaining = Some(0)

\* what holds instead: the checks fail closed for an unparsable URL and for a
\* missing or empty parameter, and agree for well-formed ones; a malformed
\* parameter gives not expired and a remaining time that is not a number
C39_MissingFailsClosed ==
  LET url == probe.args[1]
      malformed == url.parsable /\ ~ParamMissing(url) /\ Undetermined(url)
  IN /\ probe.fn \in {"isUrlExpired", "getTimeUntilExpiration"}
          => /\ (Undetermined(url) /\ ~malformed) => probe.out.expired
             /\ malformed => ~probe.out.expired
     /\ probe.fn = "getTimeUntilExpiration"
          => /\ malformed <=> probe.out.remaining = None
             /\ ~malformed => Val(probe.out.remaining) >= 0
             /\ probe.out.expired => probe.out.remaining = Some(0)

====
